---- MODULE Spec2Model ----
(***************************************************************************)
(* A model of the pyramid stone puzzle (package game), its position        *)
(* utilities (package utils) and the parallel Monte Carlo solver (package  *)
(* solver).                                                                *)
(*                                                                         *)
(* Go values are modelled as follows.                                      *)
(*   - a string is a sequence of one-character strings ("A1" is            *)
(*     <<"A","1">>), so that parsing is modelled by what it does;          *)
(*   - a slice is a header [arr, off, len, cap] into a heap of backing     *)
(*     arrays, so that two slices can share storage;                       *)
(*   - a *PuzzleGame is an object id <<kind, n>>; the arrays an object     *)
(*     allocates for segment i are named <<kind, n, i>>;                   *)
(*   - a runtime panic (index or slice bounds out of range) is a result    *)
(*     with panic = TRUE.                                                  *)
(***************************************************************************)
EXTENDS Integers, Sequences, FiniteSets, TLC

VARIABLES games, heap, last, mgr, wk, jobs, results, hist

vars == <<games, heap, last, mgr, wk, jobs, results, hist>>

(***************************************************************************)
(* Program constants.                                                      *)
(***************************************************************************)
MaxDrawPileSegments == 8
StonesPerSegment == 3
TotalPyramidStones == 28
MaxPyramidRows == 7
MaxPyramidCols == 7
PyramidRowSizes == <<7, 6, 5, 4, 3, 2, 1>>
InitialTimeRemaining == 120

(***************************************************************************)
(* Strings.                                                                *)
(***************************************************************************)
OrdTable ==
  [c \in {"+", "-", "0", "1", "2", "3", "4", "5", "6", "7", "8", "9", "A", "B", "C", "D", "E",
          "F", "G", "H", "L", "M", "O", "R", "S", "W"} |->
     CASE c = "+" -> 43 [] c = "-" -> 45
       [] c = "0" -> 48 [] c = "1" -> 49 [] c = "2" -> 50 [] c = "3" -> 51
       [] c = "4" -> 52 [] c = "5" -> 53 [] c = "6" -> 54 [] c = "7" -> 55
       [] c = "8" -> 56 [] c = "9" -> 57
       [] c = "A" -> 65 [] c = "B" -> 66 [] c = "C" -> 67 [] c = "D" -> 68
       [] c = "E" -> 69 [] c = "F" -> 70 [] c = "G" -> 71 [] c = "H" -> 72
       [] c = "L" -> 76 [] c = "M" -> 77 [] c = "O" -> 79 [] c = "R" -> 82
       [] c = "S" -> 83 [] c = "W" -> 87]

\* The character code of a one-character string.
Ord(c) == OrdTable[c]

DRAW == <<"D", "R", "A", "W">>
HOLD == <<"H", "O", "L", "D">>
DRW1 == <<"D", "R", "W", "1">>
SMASH == <<"S", "M", "A", "S", "H">>

RowCharToIndex(r) == Ord(r) - Ord("A")

IndexToRowChar(idx) == CHOOSE c \in {"A", "B", "C", "D", "E", "F", "G"} : Ord(c) = Ord("A") + idx

DigitChar(d) == CHOOSE c \in {"0", "1", "2", "3", "4", "5", "6", "7", "8", "9"} : Ord(c) = Ord("0") + d

IsDigit(c) == Ord(c) >= Ord("0") /\ Ord(c) <= Ord("9")

RECURSIVE DigitsValue(_)
DigitsValue(s) ==
  IF Len(s) = 0 THEN 0
  ELSE 10 * DigitsValue(SubSeq(s, 1, Len(s) - 1)) + (Ord(s[Len(s)]) - Ord("0"))

\* strconv.Atoi: an optional sign, then one or more decimal digits.
AtoiDigits(sign, digits) ==
  IF Len(digits) = 0 \/ \E i \in 1..Len(digits) : ~IsDigit(digits[i])
  THEN [val |-> 0, err |-> TRUE]
  ELSE [val |-> sign * DigitsValue(digits), err |-> FALSE]

Atoi(s) ==
  IF Len(s) > 0 /\ s[1] = "-" THEN AtoiDigits(-1, Tail(s))
  ELSE IF Len(s) > 0 /\ s[1] = "+" THEN AtoiDigits(1, Tail(s))
  ELSE AtoiDigits(1, s)

\* fmt.Sprintf("%d", n) for 0 <= n <= 99.
Itoa(n) == IF n < 10 THEN <<DigitChar(n)>> ELSE <<DigitChar(n \div 10), DigitChar(n % 10)>>

BadIndices == [row |-> -1, col |-> -1, err |-> TRUE]

\* Lines 48-59 of StringToIndices: a is the result of Atoi on the column part.
IndicesOf(rowIdx, a) ==
  IF a.err THEN BadIndices
  ELSE IF rowIdx < 0 \/ rowIdx >= Len(PyramidRowSizes)
          \/ a.val - 1 < 0 \/ a.val - 1 >= PyramidRowSizes[rowIdx + 1]
  THEN BadIndices
  ELSE [row |-> rowIdx, col |-> a.val - 1, err |-> FALSE]

StringToIndices(posStr) ==
  IF Len(posStr) < 2 \/ Len(posStr) > 3 THEN BadIndices
  ELSE IF Ord(posStr[1]) < Ord("A") \/ Ord(posStr[1]) > Ord("G") THEN BadIndices
  ELSE IndicesOf(RowCharToIndex(posStr[1]), Atoi(Tail(posStr)))

IndicesToString(rowIdx, colIdx) ==
  IF rowIdx < 0 \/ rowIdx >= Len(PyramidRowSizes) THEN [str |-> <<>>, err |-> TRUE]
  ELSE IF colIdx < 0 \/ colIdx >= PyramidRowSizes[rowIdx + 1] THEN [str |-> <<>>, err |-> TRUE]
  ELSE [str |-> <<IndexToRowChar(rowIdx)>> \o Itoa(colIdx + 1), err |-> FALSE]

(***************************************************************************)
(* Slices and the heap of backing arrays.                                  *)
(***************************************************************************)
NilArr == <<"nil", 0, 0>>

NilSlice == [arr |-> NilArr, off |-> 0, len |-> 0, cap |-> 0]

IsNil(s) == s.arr = NilArr

\* The elements of slice s, in order.
Elems(h, s) == [k \in 1..s.len |-> h[s.arr][s.off + k]]

\* s[:n] for n <= cap(s).
Reslice(s, n) == [s EXCEPT !.len = n]

\* s[lo:hi]: panics unless 0 <= lo <= hi <= cap(s).
SliceOk(s, lo, hi) == 0 <= lo /\ lo <= hi /\ hi <= s.cap

SliceExpr(s, lo, hi) == [arr |-> s.arr, off |-> s.off + lo, len |-> hi - lo, cap |-> s.cap - lo]

\* The capacity the runtime gives a slice grown from nil by n single appends.
AppendCap(n) == IF n <= 2 THEN n ELSE 4

Pad(seq, n) == [k \in 1..n |-> IF k <= Len(seq) THEN seq[k] ELSE 0]

\* Overwrite the contents of an existing array, or add a new one.
Store(h, id, contents) == [a \in DOMAIN h \cup {id} |-> IF a = id THEN contents ELSE h[a]]

\* copy(dst, src) for len(dst) = Len(values): writes through dst's header.
CopyInto(h, dst, values) ==
  IF dst.len = 0 THEN h
  ELSE Store(h, dst.arr,
             [k \in 1..Len(h[dst.arr]) |->
                IF k > dst.off /\ k <= dst.off + dst.len THEN values[k - dst.off]
                ELSE h[dst.arr][k]])

SegIdx == 0..(MaxDrawPileSegments - 1)

ArrId(obj, i) == <<obj[1], obj[2], i>>

(***************************************************************************)
(* PuzzleGame.  moves is modelled by its length: the log is appended to,   *)
(* copied and truncated, and no code reads its contents.                   *)
(***************************************************************************)
EmptyPyramid == [r \in 0..(MaxPyramidRows - 1) |-> [c \in 0..(MaxPyramidCols - 1) |-> -1]]

NewPuzzleGame ==
  [pyramid |-> EmptyPyramid,
   hold |-> -1,
   drawPile |-> [i \in SegIdx |-> NilSlice],
   currentSegment |-> 0,
   moves |-> 0,
   matches |-> 0,
   streak |-> 0,
   streakBonus |-> 0,
   redraws |-> 0,
   timeRemaining |-> InitialTimeRemaining,
   numActiveSegments |-> 0]

\* Row-major list of the 28 positions, as <<row, col>>.
RECURSIVE PositionsFrom(_, _)
PositionsFrom(rowIdx, colIdx) ==
  IF rowIdx >= MaxPyramidRows THEN <<>>
  ELSE IF colIdx >= PyramidRowSizes[rowIdx + 1] THEN PositionsFrom(rowIdx + 1, 0)
  ELSE <<(<<rowIdx, colIdx>>)>> \o PositionsFrom(rowIdx, colIdx + 1)

getAllPyramidPositions == PositionsFrom(0, 0)

\* A fault: one trailing empty segment is dropped at most.
trimEmptySegmentsOnce(g) ==
  [g EXCEPT !.numActiveSegments =
     IF g.drawPile[MaxDrawPileSegments - 1].len = 0 THEN MaxDrawPileSegments - 1
     ELSE MaxDrawPileSegments]

trimEmptySegments(g) ==
  LET nonEmpty == {i \in SegIdx : g.drawPile[i].len > 0}
  IN  [g EXCEPT !.numActiveSegments =
         IF nonEmpty = {} THEN 0
         ELSE 1 + CHOOSE i \in nonEmpty : \A j \in nonEmpty : j <= i]


\* The bounds of segment i in SetupCustomGame (lines 121-125), n = len(drawPileStones).
SegStart(i) == i * StonesPerSegment

SegEnd(n, i) == IF SegStart(i) + StonesPerSegment > n THEN n ELSE SegStart(i) + StonesPerSegment

\* The board after the fill loop (lines 114-117).
FillPyramid(g, pyramidStones, pyramidPositions) ==
  [r \in 0..(MaxPyramidRows - 1) |-> [c \in 0..(MaxPyramidCols - 1) |->
     IF \E i \in 1..TotalPyramidStones : pyramidPositions[i] = <<r, c>>
     THEN pyramidStones[CHOOSE i \in 1..TotalPyramidStones : pyramidPositions[i] = <<r, c>>]
     ELSE g.pyramid[r][c]]]

\* The segment loop (lines 120-127) up to, and not including, segment upto.
SetSegments(g, drawPileStones, upto) ==
  [g EXCEPT !.drawPile = [i \in SegIdx |->
     IF i < upto
     THEN SliceExpr(drawPileStones, SegStart(i), SegEnd(drawPileStones.len, i))
     ELSE g.drawPile[i]]]

\* The first segment whose slice expression is out of range.
FirstBadSegment(drawPileStones) ==
  CHOOSE i \in SegIdx :
    /\ ~SliceOk(drawPileStones, SegStart(i), SegEnd(drawPileStones.len, i))
    /\ \A j \in SegIdx :
         j < i => SliceOk(drawPileStones, SegStart(j), SegEnd(drawPileStones.len, j))

\* SetupCustomGame(pyramidStones, drawPileStones): pyramidStones is a sequence
\* of values, drawPileStones a slice header.  A slice expression with
\* start > end panics, with the board filled and the segments before it set.
SetupCustomGame(g, pyramidStones, drawPileStones) ==
  IF Len(pyramidStones) /= TotalPyramidStones
  THEN [g |-> g, err |-> TRUE, panic |-> FALSE]
  ELSE IF drawPileStones.len > MaxDrawPileSegments * StonesPerSegment
  THEN [g |-> g, err |-> TRUE, panic |-> FALSE]
  ELSE IF \E i \in SegIdx :
            ~SliceOk(drawPileStones, SegStart(i), SegEnd(drawPileStones.len, i))
  THEN [g |-> SetSegments([g EXCEPT !.pyramid =
                             FillPyramid(g, pyramidStones, getAllPyramidPositions)],
                          drawPileStones, FirstBadSegment(drawPileStones)),
        err |-> FALSE, panic |-> TRUE]
  ELSE [g |-> trimEmptySegments(
                SetSegments([g EXCEPT !.pyramid =
                               FillPyramid(g, pyramidStones, getAllPyramidPositions)],
                            drawPileStones, MaxDrawPileSegments)),
        err |-> FALSE, panic |-> FALSE]

\* A faulty table: the pairs of Pyramid solitaire, which sum to 13.
validPairsSum13 == <<(<<1, 12>>), (<<2, 11>>), (<<3, 10>>), (<<4, 9>>), (<<5, 8>>), (<<6, 7>>)>>

validPairs == <<(<<1, 2>>), (<<3, 4>>), (<<5, 6>>), (<<7, 8>>), (<<9, 10>>), (<<11, 12>>)>>

IsMatchingPair(stone1, stone2) ==
  IF stone1 = -1 \/ stone2 = -1 \/ stone1 = 13 \/ stone2 = 13 THEN FALSE
  ELSE \E k \in 1..Len(validPairs) :
         \/ (stone1 = validPairs[k][1] /\ stone2 = validPairs[k][2])
         \/ (stone1 = validPairs[k][2] /\ stone2 = validPairs[k][1])

\* A fault: only the left support is looked at.
IsAccessibleLeftSupport(g, rowIdx, colIdx) ==
  IF g.pyramid[rowIdx][colIdx] = -1 THEN FALSE
  ELSE IF rowIdx = 0 THEN TRUE
  ELSE g.pyramid[rowIdx - 1][colIdx] = -1

IsAccessible(g, rowIdx, colIdx) ==
  IF g.pyramid[rowIdx][colIdx] = -1 THEN FALSE
  ELSE IF rowIdx = 0 THEN TRUE
  ELSE g.pyramid[rowIdx - 1][colIdx] = -1 /\ g.pyramid[rowIdx - 1][colIdx + 1] = -1

\* A fault: every occupied position counts as accessible.
AccessibleAmongOccupied(g, all) ==
  SelectSeq([k \in 1..Len(all) |->
               [acc |-> g.pyramid[all[k][1]][all[k][2]] /= -1,
                pos |-> IndicesToString(all[k][1], all[k][2]).str]],
            LAMBDA e : e.acc)

\* The accessible positions as strings, in row-major order.
AccessibleAmong(g, all) ==
  SelectSeq([k \in 1..Len(all) |->
               [acc |-> IsAccessible(g, all[k][1], all[k][2]),
                pos |-> IndicesToString(all[k][1], all[k][2]).str]],
            LAMBDA e : e.acc)

GetAccessiblePositions(g) == AccessibleAmong(g, getAllPyramidPositions)

\* The nearest non-empty segment before the cursor, or -1 (the loops at
\* lines 205-210, 251-257, 321-327, 344-350 and 387-393).
NearestIn(cands) ==
  IF cands = {} THEN -1 ELSE CHOOSE seg \in cands : \A o \in cands : o <= seg

BackfillSegment(g) ==
  NearestIn({seg \in SegIdx : seg < g.currentSegment /\ g.drawPile[seg].len > 0})

Top(h, s) == h[s.arr][s.off + s.len]

TopOrNone(g, h, seg) == IF seg /= -1 THEN Top(h, g.drawPile[seg]) ELSE -1

GetCurrentDrawStone(g, h) ==
  IF g.drawPile[g.currentSegment].len > 0 THEN Top(h, g.drawPile[g.currentSegment])
  ELSE TopOrNone(g, h, BackfillSegment(g))

\* A fault: the pop out of an earlier segment leaves numActiveSegments alone.
PopBackfillUntrimmed(g, seg) ==
  IF seg /= -1
  THEN [g EXCEPT !.drawPile[seg] = Reslice(@, @.len - 1)]
  ELSE g

PopBackfill(g, seg) ==
  IF seg /= -1
  THEN trimEmptySegments([g EXCEPT !.drawPile[seg] = Reslice(@, @.len - 1)])
  ELSE g

\* Removal of the visible draw stone.  The source repeats this block at
\* lines 248-258, 318-328, 341-351 and 384-394.
PopDrawStone(g) ==
  IF g.drawPile[g.currentSegment].len > 0
  THEN [g EXCEPT !.drawPile[g.currentSegment] = Reslice(@, @.len - 1)]
  ELSE PopBackfill(g, BackfillSegment(g))

\* All stones of the pile, segment after segment (lines 415-418).
RECURSIVE AllStonesFrom(_, _, _)
AllStonesFrom(g, h, i) ==
  IF i >= MaxDrawPileSegments THEN <<>>
  ELSE Elems(h, g.drawPile[i]) \o AllStonesFrom(g, h, i + 1)

\* A fault: the repacking loop fills a segment with one stone too many.
RECURSIVE RepackOverfull(_, _, _)
RepackOverfull(stones, segs, segmentIdx) ==
  IF Len(stones) = 0 THEN segs
  ELSE IF segmentIdx < MaxDrawPileSegments
  THEN IF Len(segs[segmentIdx]) < StonesPerSegment + 1
       THEN RepackOverfull(Tail(stones),
                           [segs EXCEPT ![segmentIdx] = Append(@, Head(stones))], segmentIdx)
       ELSE IF segmentIdx + 1 < MaxDrawPileSegments
            THEN RepackOverfull(Tail(stones),
                                [segs EXCEPT ![segmentIdx + 1] = Append(@, Head(stones))],
                                segmentIdx + 1)
            ELSE RepackOverfull(Tail(stones), segs, segmentIdx + 1)
  ELSE RepackOverfull(Tail(stones), segs, segmentIdx)

\* The repacking loop of _redistributeDrawPile (lines 425-437) over the
\* remaining stones: segs is the array of new segments, segmentIdx the cursor.
RECURSIVE Repack(_, _, _)
Repack(stones, segs, segmentIdx) ==
  IF Len(stones) = 0 THEN segs
  ELSE IF segmentIdx < MaxDrawPileSegments
  THEN IF Len(segs[segmentIdx]) < StonesPerSegment
       THEN Repack(Tail(stones), [segs EXCEPT ![segmentIdx] = Append(@, Head(stones))],
                   segmentIdx)
       ELSE IF segmentIdx + 1 < MaxDrawPileSegments
            THEN Repack(Tail(stones),
                        [segs EXCEPT ![segmentIdx + 1] = Append(@, Head(stones))],
                        segmentIdx + 1)
            ELSE Repack(Tail(stones), segs, segmentIdx + 1)
  ELSE Repack(Tail(stones), segs, segmentIdx)

\* The game and heap once the repacked segments segs are in place; self names
\* the object g is stored in: its new arrays are ArrId(self, i).
Repacked(g, h, self, segs) ==
  [g |-> trimEmptySegments(
           [g EXCEPT !.drawPile = [i \in SegIdx |->
                        IF Len(segs[i]) > 0
                        THEN [arr |-> ArrId(self, i), off |-> 0, len |-> Len(segs[i]),
                              cap |-> AppendCap(Len(segs[i]))]
                        ELSE NilSlice],
                     !.numActiveSegments = 0]),
   h |-> [a \in DOMAIN h \cup {ArrId(self, i) : i \in {k \in SegIdx : Len(segs[k]) > 0}} |->
            IF \E i \in SegIdx : Len(segs[i]) > 0 /\ a = ArrId(self, i)
            THEN Pad(segs[a[3]], AppendCap(Len(segs[a[3]])))
            ELSE h[a]]]

redistributeDrawPile(g, h, self) ==
  Repacked(g, h, self, Repack(AllStonesFrom(g, h, 0), [i \in SegIdx |-> <<>>], 0))

\* A fault: the bonus keeps growing with the streak past the fifth move.
AddStreakBonusUncapped(g) ==
  IF g.streak > 1 THEN [g EXCEPT !.streakBonus = @ + (g.streak - 1) * 50] ELSE g

\* Lines 273-279 and 364-370: the bonus of the streak just extended.
AddStreakBonus(g) ==
  IF g.streak > 1
  THEN IF g.streak >= 5
       THEN [g EXCEPT !.streakBonus = @ + 200]
       ELSE [g EXCEPT !.streakBonus = @ + (g.streak - 1) * 50]
  ELSE g

\* Lines 271-280 and 362-371: count the clearing move.
CountClear(g) == AddStreakBonus([g EXCEPT !.matches = @ + 1, !.streak = @ + 1])

\* g.pyramid[row][col] is in range.
InPyramid(row, col) ==
  row >= 0 /\ row < MaxPyramidRows /\ col >= 0 /\ col < MaxPyramidCols

Returned(g, h, ret) == [g |-> g, h |-> h, ret |-> ret, panic |-> FALSE]

Panicked(g, h) == [g |-> g, h |-> h, ret |-> FALSE, panic |-> TRUE]

\* g.pyramid[p.row][p.col], which panics on the indices of a failed parse.
CellStone(g, p) ==
  IF InPyramid(p.row, p.col)
  THEN [stone |-> g.pyramid[p.row][p.col], panic |-> FALSE]
  ELSE [stone |-> -1, panic |-> TRUE]

\* The stone an endpoint label denotes (lines 286-309).
EndpointStone(g, h, label) ==
  IF label = HOLD THEN [stone |-> g.hold, panic |-> FALSE]
  ELSE IF label = DRW1 THEN [stone |-> GetCurrentDrawStone(g, h), panic |-> FALSE]
  ELSE CellStone(g, StringToIndices(label))

ClearCell(g, p) == [g EXCEPT !.pyramid[p.row][p.col] = -1]

\* A fault: a matched stone stays in the hold.
RemoveEndpointKeepsHold(g, label) ==
  IF label = DRW1 THEN PopDrawStone(g)
  ELSE IF label = HOLD THEN g
  ELSE ClearCell(g, StringToIndices(label))

\* Removal of a matched endpoint (lines 317-334 and 340-357).  The label was
\* read by EndpointStone before, so a cell label is in range here.
RemoveEndpoint(g, label) ==
  IF label = DRW1 THEN PopDrawStone(g)
  ELSE IF label = HOLD THEN [g EXCEPT !.hold = -1]
  ELSE ClearCell(g, StringToIndices(label))

\* Lines 233-236, after _redistributeDrawPile returned r.
Redrawn(r) == Returned([trimEmptySegments(r.g) EXCEPT !.streak = 0], r.h, FALSE)

\* A fault: the redraw resets the cursor and counts, and leaves the segments
\* as they are.
AdvanceDrawNoRepack(g, h, self) ==
  IF g.currentSegment + 1 >= g.numActiveSegments
  THEN Redrawn([g |-> [g EXCEPT !.currentSegment = 0, !.redraws = @ + 1], h |-> h])
  ELSE Returned([g EXCEPT !.currentSegment = @ + 1, !.streak = 0], h, FALSE)

\* Lines 227-237.
AdvanceDraw(g, h, self) ==
  IF g.currentSegment + 1 >= g.numActiveSegments
  THEN Redrawn(redistributeDrawPile([g EXCEPT !.currentSegment = 0, !.redraws = @ + 1],
                                    h, self))
  ELSE Returned([g EXCEPT !.currentSegment = @ + 1, !.streak = 0], h, FALSE)

\* A fault: a cell is discarded whatever its stone.
SmashCellAnyStone(g, h, p) ==
  IF ~InPyramid(p.row, p.col) THEN Panicked(g, h)
  ELSE Returned(CountClear(ClearCell(g, p)), h, TRUE)

\* Lines 263-270.
SmashCell(g, h, p) ==
  IF ~InPyramid(p.row, p.col) THEN Panicked(g, h)
  ELSE IF g.pyramid[p.row][p.col] = 13 THEN Returned(CountClear(ClearCell(g, p)), h, TRUE)
  ELSE Returned(g, h, FALSE)

\* Lines 242-281.
Smash(g, h, source) ==
  IF source = DRW1
  THEN IF GetCurrentDrawStone(g, h) = 13
       THEN Returned(CountClear(PopDrawStone(g)), h, TRUE)
       ELSE Returned(g, h, FALSE)
  ELSE SmashCell(g, h, StringToIndices(source))

\* A fault: the cell keeps the stone that went into the hold.
PlaceCellKeepsStone(g, h, p) ==
  IF ~InPyramid(p.row, p.col) THEN Panicked(g, h)
  ELSE Returned(g, h, FALSE)

\* Lines 396-399, the hold already set.
PlaceCell(g, h, p) ==
  IF ~InPyramid(p.row, p.col) THEN Panicked(g, h)
  ELSE Returned(ClearCell(g, p), h, FALSE)

\* A fault: a placement into the hold ends the streak.
PlaceIntoHoldEndsStreak(g, h, source, sourceStone) ==
  IF g.hold /= -1 THEN Returned(g, h, FALSE)
  ELSE IF source = DRW1
  THEN Returned(PopDrawStone([g EXCEPT !.hold = sourceStone, !.streak = 0]), h, FALSE)
  ELSE PlaceCell([g EXCEPT !.hold = sourceStone, !.streak = 0], h, StringToIndices(source))

\* Lines 378-400.
PlaceIntoHold(g, h, source, sourceStone) ==
  IF g.hold /= -1 THEN Returned(g, h, FALSE)
  ELSE IF source = DRW1
  THEN Returned(PopDrawStone([g EXCEPT !.hold = sourceStone]), h, FALSE)
  ELSE PlaceCell([g EXCEPT !.hold = sourceStone], h, StringToIndices(source))

\* Lines 315-407, src and dst being the stones read at lines 286-309.
MatchOrPlace(g, h, source, destination, src, dst) ==
  IF src.panic \/ dst.panic THEN Panicked(g, h)
  ELSE IF IsMatchingPair(src.stone, dst.stone)
  THEN Returned(CountClear(RemoveEndpoint(RemoveEndpoint(g, source), destination)), h, TRUE)
  ELSE IF destination = HOLD THEN PlaceIntoHold(g, h, source, src.stone)
  ELSE Returned([g EXCEPT !.streak = 0], h, FALSE)

\* Lines 227-408, the move already logged.
Dispatch(g, h, self, source, destination) ==
  IF source = DRAW /\ destination = DRAW THEN AdvanceDraw(g, h, self)
  ELSE IF destination = SMASH THEN Smash(g, h, source)
  ELSE MatchOrPlace(g, h, source, destination,
                    EndpointStone(g, h, source), EndpointStone(g, h, destination))

\* g.MakeMove(source, destination), g stored in object self.
MakeMove(g, h, self, source, destination) ==
  Dispatch([g EXCEPT !.moves = @ + 1], h, self, source, destination)

IsSolved(g) ==
  \A rowIdx \in 0..(MaxPyramidRows - 1) :
    \A colIdx \in 0..(PyramidRowSizes[rowIdx + 1] - 1) : g.pyramid[rowIdx][colIdx] = -1

\* A faulty count of the cleared positions: it runs over the whole 7x7 array,
\* whose unused entries are -1 as well.
ClearedPositionsOfArray(g) ==
  Cardinality({p \in {<<r, c>> : r \in 0..(MaxPyramidRows - 1), c \in 0..(MaxPyramidCols - 1)} :
                 g.pyramid[p[1]][p[2]] = -1})

\* The number of cleared positions; the source divides it by 28 as a float64.
ClearedPositions(g) ==
  Cardinality({p \in {<<r, c>> : r \in 0..(MaxPyramidRows - 1), c \in 0..(MaxPyramidCols - 1)} :
                 p[2] < PyramidRowSizes[p[1] + 1] /\ g.pyramid[p[1]][p[2]] = -1})

RECURSIVE SumLens(_, _)
SumLens(g, i) ==
  IF i >= MaxDrawPileSegments THEN 0 ELSE g.drawPile[i].len + SumLens(g, i + 1)

Max(a, b) == IF a >= b THEN a ELSE b

\* A faulty score: the stones left count whether the board is solved or not.
CalculateScoreUngated(g) ==
  Max(0, g.matches * 50
         + ((IF g.hold /= -1 THEN 1 ELSE 0) + SumLens(g, 0)) * 50
         + g.redraws * (-50) + g.streakBonus + (IF IsSolved(g) THEN 500 ELSE 0)
         + ((g.timeRemaining * ClearedPositions(g) * 6) \div TotalPyramidStones))

\* timeBonus is floor(float64(timeRemaining) * (cleared / 28.0) * 6).  For
\* timeRemaining = 120 and cleared in 0..28 the float64 product is exact when
\* 28 divides 720 * cleared and at least 1/7 from an integer otherwise, so it
\* equals the integer quotient below.
CalculateScore(g) ==
  LET matchingScore == g.matches * 50
      stonesRemaining == (IF g.hold /= -1 THEN 1 ELSE 0) + SumLens(g, 0)
      stonesRemainingScore == IF IsSolved(g) THEN stonesRemaining * 50 ELSE 0
      redrawCost == g.redraws * (-50)
      completionBonus == IF IsSolved(g) THEN 500 ELSE 0
      timeBonus == (g.timeRemaining * ClearedPositions(g) * 6) \div TotalPyramidStones
      totalScore == matchingScore + stonesRemainingScore + redrawCost + g.streakBonus
                    + completionBonus + timeBonus
  IN  Max(0, totalScore)

\* A faulty copy: the segments are assigned, which copies the slice headers
\* and shares the arrays.
DeepCopyShared(g, h, dst) ==
  [g |-> [NewPuzzleGame EXCEPT
            !.hold = g.hold,
            !.currentSegment = g.currentSegment,
            !.matches = g.matches,
            !.streak = g.streak,
            !.streakBonus = g.streakBonus,
            !.redraws = g.redraws,
            !.timeRemaining = g.timeRemaining,
            !.numActiveSegments = g.numActiveSegments,
            !.pyramid = g.pyramid,
            !.moves = g.moves,
            !.drawPile = g.drawPile],
   h |-> h]

\* g.DeepCopy(), the new object being dst.
DeepCopy(g, h, dst) ==
  LET copied == {i \in SegIdx : ~IsNil(g.drawPile[i])}
      newGame == [NewPuzzleGame EXCEPT
                    !.hold = g.hold,
                    !.currentSegment = g.currentSegment,
                    !.matches = g.matches,
                    !.streak = g.streak,
                    !.streakBonus = g.streakBonus,
                    !.redraws = g.redraws,
                    !.timeRemaining = g.timeRemaining,
                    !.numActiveSegments = g.numActiveSegments,
                    !.pyramid = g.pyramid,
                    !.moves = g.moves,
                    !.drawPile = [i \in SegIdx |->
                       IF i \in copied
                       THEN [arr |-> ArrId(dst, i), off |-> 0, len |-> g.drawPile[i].len,
                             cap |-> g.drawPile[i].len]
                       ELSE NilSlice]]
      h1 == [a \in DOMAIN h \cup {ArrId(dst, i) : i \in copied} |->
               IF \E i \in copied : a = ArrId(dst, i)
               THEN Elems(h, g.drawPile[a[3]])
               ELSE h[a]]
  IN  [g |-> newGame, h |-> h1]

\* The draw-pile loop of Reset (lines 625-633), segment i onwards: the heap is
\* threaded through, as each copy reads what the ones before it wrote.
RECURSIVE ResetSegments(_, _, _, _, _)
ResetSegments(g, h, self, original, i) ==
  IF i >= MaxDrawPileSegments THEN [g |-> g, h |-> h]
  ELSE
    LET n == original.drawPile[i].len
        values == Elems(h, original.drawPile[i])
        dst == IF g.drawPile[i].cap < n
               THEN [arr |-> ArrId(self, i), off |-> 0, len |-> n, cap |-> n]
               ELSE Reslice(g.drawPile[i], n)
        h0 == IF g.drawPile[i].cap < n THEN Store(h, dst.arr, [k \in 1..n |-> 0]) ELSE h
    IN  ResetSegments([g EXCEPT !.drawPile[i] = dst], CopyInto(h0, dst, values),
                      self, original, i + 1)

\* g.Reset(original), g stored in object self.
Reset(g, h, self, original) ==
  ResetSegments([g EXCEPT !.hold = original.hold,
                          !.currentSegment = original.currentSegment,
                          !.matches = original.matches,
                          !.streak = original.streak,
                          !.streakBonus = original.streakBonus,
                          !.redraws = original.redraws,
                          !.timeRemaining = original.timeRemaining,
                          !.numActiveSegments = original.numActiveSegments,
                          !.moves = 0,
                          !.pyramid = original.pyramid],
                h, self, original, 0)

\* Public accessors.
PyramidValue(g, row, col) == g.pyramid[row][col]

\* A fault: an empty hold is reported as holding the value 0.
HoldValueNeverEmpty(g) == IF g.hold = -1 THEN 0 ELSE g.hold

HoldValue(g) == g.hold

Redraws(g) == g.redraws

NumActiveSegments(g) == g.numActiveSegments


(***************************************************************************)
(* The move generator of the solver.                                       *)
(***************************************************************************)
Move(source, destination) == [Source |-> source, Destination |-> destination]

\* The value at a position string, as the generator reads it (lines 151-152).
StoneAt(g, pos) ==
  LET p == StringToIndices(pos) IN PyramidValue(g, p.row, p.col)

\* A fault: the generator pairs the stones that sum to 13.
RECURSIVE PairMovesSumThirteen(_, _, _, _)
PairMovesSumThirteen(g, ap, i, j) ==
  IF j > Len(ap) THEN <<>>
  ELSE (IF StoneAt(g, ap[i]) + StoneAt(g, ap[j]) = 13
        THEN <<Move(ap[i], ap[j])>> ELSE <<>>)
       \o PairMovesSumThirteen(g, ap, i, j + 1)

\* Lines 162-169: the pair moves of position i with the positions after it.
RECURSIVE PairMoves(_, _, _, _)
PairMoves(g, ap, i, j) ==
  IF j > Len(ap) THEN <<>>
  ELSE (IF IsMatchingPair(StoneAt(g, ap[i]), StoneAt(g, ap[j]))
        THEN <<Move(ap[i], ap[j])>> ELSE <<>>)
       \o PairMoves(g, ap, i, j + 1)

\* Lines 156-180: the moves of position i and of those after it.
RECURSIVE CellMoves(_, _, _, _)
CellMoves(g, h, ap, i) ==
  IF i > Len(ap) THEN <<>>
  ELSE
    LET pos1 == ap[i]
        stone1 == StoneAt(g, pos1)
        drw1Stone == GetCurrentDrawStone(g, h)
    IN  (IF stone1 = 13 THEN <<>>
         ELSE PairMoves(g, ap, i, i + 1)
              \o (IF HoldValue(g) /= -1 /\ IsMatchingPair(stone1, HoldValue(g))
                  THEN <<Move(pos1, HOLD)>> ELSE <<>>)
              \o (IF drw1Stone /= -1 /\ IsMatchingPair(stone1, drw1Stone)
                  THEN <<Move(pos1, DRW1)>> ELSE <<>>)
              \o (IF HoldValue(g) = -1 /\ stone1 /= 13
                  THEN <<Move(pos1, HOLD)>> ELSE <<>>))
        \o CellMoves(g, h, ap, i + 1)

\* A fault: the visible draw stone is offered to the empty hold whatever it is.
getPossibleMovesHoldingThirteen(g, h) ==
  LET acc == GetAccessiblePositions(g)
      accessiblePositions == [k \in 1..Len(acc) |-> acc[k].pos]
      smashes == SelectSeq(accessiblePositions, LAMBDA pos : StoneAt(g, pos) = 13)
      drw == GetCurrentDrawStone(g, h)
  IN  <<Move(DRAW, DRAW)>>
      \o [k \in 1..Len(smashes) |-> Move(smashes[k], SMASH)]
      \o CellMoves(g, h, accessiblePositions, 1)
      \o (IF HoldValue(g) /= -1 /\ drw /= -1 /\ IsMatchingPair(HoldValue(g), drw)
          THEN <<Move(HOLD, DRW1)>> ELSE <<>>)
      \o (IF HoldValue(g) = -1 /\ drw /= -1
          THEN <<Move(DRW1, HOLD)>> ELSE <<>>)
      \o (IF drw = 13 THEN <<Move(DRW1, SMASH)>> ELSE <<>>)

getPossibleMovesForSimulation(g, h) ==
  LET acc == GetAccessiblePositions(g)
      accessiblePositions == [k \in 1..Len(acc) |-> acc[k].pos]
      smashes == SelectSeq(accessiblePositions, LAMBDA pos : StoneAt(g, pos) = 13)
      drw == GetCurrentDrawStone(g, h)
  IN  <<Move(DRAW, DRAW)>>
      \o [k \in 1..Len(smashes) |-> Move(smashes[k], SMASH)]
      \o CellMoves(g, h, accessiblePositions, 1)
      \o (IF HoldValue(g) /= -1 /\ drw /= -1 /\ IsMatchingPair(HoldValue(g), drw)
          THEN <<Move(HOLD, DRW1)>> ELSE <<>>)
      \o (IF HoldValue(g) = -1 /\ drw /= -1 /\ drw /= 13
          THEN <<Move(DRW1, HOLD)>> ELSE <<>>)
      \o (IF drw = 13 THEN <<Move(DRW1, SMASH)>> ELSE <<>>)


(***************************************************************************)
(* The game on its own: one game object set up by SetupCustomGame and any  *)
(* caller applying MakeMove to it.  A second object made by DeepCopy, and  *)
(* Reset between the two, are added in the copy specification below.       *)
(***************************************************************************)
GameObj == <<"game", 0>>
CopyObj == <<"copy", 0>>
InputArr == <<"input", 0, 0>>

\* Arrays some segment of some game still refers to; the rest is garbage.
Live(gs) == {gs[o].drawPile[i].arr : o \in DOMAIN gs, i \in SegIdx} \ {NilArr}

Collect(gs, h) == [a \in DOMAIN h \cap Live(gs) |-> h[a]]

\* What a caller can observe of a game, and its counters.
View(g, h) ==
  [pyramid |-> g.pyramid,
   hold |-> g.hold,
   pile |-> [i \in SegIdx |-> Elems(h, g.drawPile[i])],
   currentSegment |-> g.currentSegment,
   numActiveSegments |-> NumActiveSegments(g),
   moves |-> g.moves,
   matches |-> g.matches,
   streak |-> g.streak,
   streakBonus |-> g.streakBonus,
   redraws |-> Redraws(g),
   timeRemaining |-> g.timeRemaining,
   drawStone |-> GetCurrentDrawStone(g, h),
   solved |-> IsSolved(g),
   score |-> CalculateScore(g)]

Views(gs, h) == [o \in DOMAIN gs |-> View(gs[o], h)]

\* The example puzzle of main.go.
ExamplePyramid ==
  <<12, 10, 11, 6, 11, 7, 12, 11, 5, 1, 4, 1, 4, 5, 10, 8, 11, 9, 7, 2, 9, 6, 2, 13, 9, 10,
    12, 13>>

ExampleDrawPile ==
  <<6, 3, 8, 9, 3, 10, 2, 13, 6, 7, 1, 13, 12, 4, 1, 2, 3, 8, 5, 3, 5, 7, 3, 8>>

Thirteens(n) == [k \in 1..n |-> 13]

\* Boards of 13s but for a few cells, with piles of 13s but for a few stones.
DiagonalPyramid ==
  [k \in 1..TotalPyramidStones |->
     CASE k = 1 -> 1 [] k = 8 -> 2 [] k = 14 -> 5 [] k = 19 -> 7 [] k = 23 -> 9
       [] k = 26 -> 11 [] OTHER -> 13]

ApexPyramid == [k \in 1..TotalPyramidStones |-> IF k = TotalPyramidStones THEN 6 ELSE 13]

\* A game is played into a small position by moves the generator offers:
\* every accessible 13 of the board is smashed, then the pile is gone through
\* once, smashing every visible 13, up to the first redraw ("smash"); or the
\* pile is advanced to its last segment ("draws"); or the visible draw stone is
\* put into the hold ("hold"); or nothing ("none").
BoardSmashes(g, h) ==
  SelectSeq(getPossibleMovesForSimulation(g, h),
            LAMBDA m : m.Destination = SMASH /\ m.Source /= DRW1)

LeadDone(g, h, lead) ==
  \/ lead = "none"
  \/ lead = "hold" /\ g.hold /= -1
  \/ lead = "draws" /\ g.currentSegment = MaxDrawPileSegments - 1
  \/ lead = "smash" /\ g.redraws >= 1

LeadMove(g, h, lead) ==
  IF lead = "smash" /\ Len(BoardSmashes(g, h)) > 0 THEN BoardSmashes(g, h)[1]
  ELSE IF lead = "smash" /\ GetCurrentDrawStone(g, h) = 13 THEN Move(DRW1, SMASH)
  ELSE IF lead = "hold" THEN Move(DRW1, HOLD)
  ELSE Move(DRAW, DRAW)

RECURSIVE Lead(_, _, _, _)
LeadStep(r, self, lead) == Lead(r.g, r.h, self, lead)

LeadWith(g, h, self, lead, m) ==
  LeadStep(MakeMove(g, h, self, m.Source, m.Destination), self, lead)

Lead(g, h, self, lead) ==
  IF LeadDone(g, h, lead) THEN [g |-> g, h |-> h]
  ELSE LeadWith(g, h, self, lead, LeadMove(g, h, lead))

\* The games a run starts from.  Played out, the third leaves the cells
\* A1 = 1, B1 = 2, C1 = 5, D1 = 7, E1 = 9, F1 = 11, G1 = 13 and the pile <<4>>,
\* the fourth the cell G1 = 6 and the pile <<1, 6, 5>>, the fifth an empty
\* board and the pile <<1, 6, 5>>.
Setups ==
  <<[pyramid |-> ExamplePyramid, pile |-> ExampleDrawPile, lead |-> "none"],
    [pyramid |-> ExamplePyramid, pile |-> ExampleDrawPile, lead |-> "draws"],
    [pyramid |-> DiagonalPyramid, pile |-> <<4, 13, 13>> \o Thirteens(21), lead |-> "smash"],
    [pyramid |-> ApexPyramid, pile |-> <<1, 6, 5>> \o Thirteens(21), lead |-> "smash"],
    [pyramid |-> Thirteens(TotalPyramidStones), pile |-> <<1, 6, 5>> \o Thirteens(21),
     lead |-> "smash"]>>

InputSlice(n) == [arr |-> InputArr, off |-> 0, len |-> n, cap |-> n]

StartGame(setup, self) ==
  Lead(SetupCustomGame(NewPuzzleGame, setup.pyramid, InputSlice(Len(setup.pile))).g,
       [a \in {InputArr} |-> setup.pile], self, setup.lead)

\* Endpoint labels a caller passes: cells and the reserved tokens, and
\* strings that are neither ("A8": column out of range, "H1": row out of
\* range, "A": too short).
Labels == {<<"A", "1">>, <<"B", "1">>, <<"G", "1">>, DRAW, HOLD, DRW1, SMASH}

BadLabels == {<<"A", "8">>, <<"H", "1">>, <<"A">>}

\* The moves tried in every state.
Moves ==
  {Move(s, d) : s \in Labels, d \in Labels}
  \cup {Move(s, d) : s \in BadLabels, d \in {HOLD, SMASH}}
  \cup {Move(s, d) : s \in {HOLD, <<"A", "1">>}, d \in BadLabels}

MaxSteps == 2

Idle == [pc |-> "idle"]

Started(op, gs, h) ==
  [op |-> op, obj |-> GameObj, src |-> GameObj, source |-> <<>>, destination |-> <<>>,
   ret |-> FALSE, panic |-> FALSE, pre |-> Views(gs, h), steps |-> 0, resets |-> 0]

NoSolver ==
  /\ mgr = Idle
  /\ wk = <<>>
  /\ jobs = <<>>
  /\ results = <<>>
  /\ hist = <<>>

\* The game object holds the game s.g over the heap s.h.
StartedWith(s) ==
  /\ games = [o \in {GameObj} |-> s.g]
  /\ heap = Collect([o \in {GameObj} |-> s.g], s.h)
  /\ last = Started("init", [o \in {GameObj} |-> s.g], s.h)

InitGame ==
  /\ \E k \in 1..Len(Setups) : StartedWith(StartGame(Setups[k], GameObj))
  /\ NoSolver

\* The call o.MakeMove(m.Source, m.Destination) returned r.
Moved(o, m, r) ==
  /\ games' = [games EXCEPT ![o] = r.g]
  /\ heap' = Collect([games EXCEPT ![o] = r.g], r.h)
  /\ last' = [op |-> "MakeMove", obj |-> o, src |-> o, source |-> m.Source,
              destination |-> m.Destination, ret |-> r.ret, panic |-> r.panic,
              pre |-> Views(games, heap), steps |-> last.steps + 1, resets |-> last.resets]

MakeMoveOn(o, m) == Moved(o, m, MakeMove(games[o], heap, o, m.Source, m.Destination))

CallMakeMove ==
  /\ ~last.panic
  /\ last.steps < MaxSteps
  /\ \E m \in Moves : MakeMoveOn(GameObj, m)
  /\ UNCHANGED <<mgr, wk, jobs, results, hist>>

NextGame == CallMakeMove

SpecGame == InitGame /\ [][NextGame]_vars


(***************************************************************************)
(* Copies: the game object, a second object made from it by DeepCopy, and  *)
(* a caller applying DeepCopy, Reset (in either direction) and MakeMove to *)
(* them.                                                                   *)
(***************************************************************************)
MaxCopySteps == 4

CopySetups == <<Setups[1], Setups[2], Setups[4]>>

\* The moves the caller makes: moves of the generator on the pile, the hold
\* and the cell G1.
CopyMoves ==
  {Move(DRAW, DRAW), Move(DRW1, HOLD), Move(HOLD, DRW1), Move(DRW1, SMASH),
   Move(<<"G", "1">>, HOLD)}

InitCopy ==
  /\ \E k \in 1..Len(CopySetups) : StartedWith(StartGame(CopySetups[k], GameObj))
  /\ NoSolver

\* Object dst now holds the game r.g over the heap r.h.
Stored(op, dst, src, r, resets) ==
  /\ games' = [o \in DOMAIN games \cup {dst} |-> IF o = dst THEN r.g ELSE games[o]]
  /\ heap' = Collect(games', r.h)
  /\ last' = [op |-> op, obj |-> dst, src |-> src, source |-> <<>>, destination |-> <<>>,
              ret |-> FALSE, panic |-> FALSE, pre |-> Views(games, heap),
              steps |-> last.steps + 1, resets |-> resets]

\* c := g.DeepCopy()
CallDeepCopy ==
  /\ last.steps < MaxCopySteps
  /\ Stored("DeepCopy", CopyObj, GameObj, DeepCopy(games[GameObj], heap, CopyObj), 0)
  /\ UNCHANGED <<mgr, wk, jobs, results, hist>>

\* dst.Reset(src)
CallReset ==
  /\ last.steps < MaxCopySteps
  /\ \E dst \in DOMAIN games, src \in DOMAIN games :
       /\ dst /= src
       /\ Stored("Reset", dst, src, Reset(games[dst], heap, dst, games[src]),
                 last.resets + 1)
  /\ UNCHANGED <<mgr, wk, jobs, results, hist>>

CallMakeMoveOnEither ==
  /\ last.steps < MaxCopySteps
  /\ \E o \in DOMAIN games, m \in CopyMoves : MakeMoveOn(o, m)
  /\ UNCHANGED <<mgr, wk, jobs, results, hist>>

NextCopy == CallDeepCopy \/ CallReset \/ CallMakeMoveOnEither

SpecCopy == InitCopy /\ [][NextCopy]_vars


(***************************************************************************)
(* The solver: SolveMonteCarlo (the manager), its workers, the channels    *)
(* jobs and results.  The random source of a worker is a free choice.      *)
(* hist records what was done, for the properties to refer to.             *)
(***************************************************************************)
MaxWorkers == 3

MaxIterations == 2

\* The ceiling on len(movesMade) at line 84; the source has 200.
MaxMovesMade == 1

\* The templates: the cell G1 = 6 with the pile <<1, 6, 5>>, where the score
\* is not 0; and a full board of 1s with 3 in the hold, where it is 0.
SolverSetups ==
  <<Setups[4],
    [pyramid |-> [k \in 1..TotalPyramidStones |-> 1],
     pile |-> <<8, 8, 3>> \o [k \in 1..21 |-> 8], lead |-> "hold"]>>

\* The worker's two game objects (lines 44-45).
simulatedGame(w) == <<"sim", w>>

\* A fault: one scratch game for all workers.
tempGameShared(w) == <<"temp", 0>>

tempGame(w) == <<"temp", w>>

\* A fault: the remainder of the division is given to no worker.
JobsForEvenShare(iterations, numWorkers) ==
  SelectSeq([k \in 1..numWorkers |->
               [NumSimulations |-> iterations \div numWorkers, Seed |-> k - 1]],
            LAMBDA job : job.NumSimulations > 0)

\* Lines 116-124: the jobs sent, in order; the seed of a job is its index.
JobsFor(iterations, numWorkers) ==
  SelectSeq([k \in 1..numWorkers |->
               [NumSimulations |-> (iterations \div numWorkers)
                                   + (IF k = numWorkers THEN iterations % numWorkers ELSE 0),
                Seed |-> k - 1]],
            LAMBDA job : job.NumSimulations > 0)

\* Line 131: the manager receives in iteration w of its last loop.
Receives(iterations, numWorkers, w) ==
  (iterations \div numWorkers > 0) \/ (w < iterations % numWorkers)

\* Lines 135-138; a fault that replaces the best on a tie as well.
ReduceOnTie(best, result) ==
  IF result.Score >= best.Score THEN [Score |-> result.Score, Moves |-> result.Moves] ELSE best

Reduce(best, result) ==
  IF result.Score > best.Score THEN [Score |-> result.Score, Moves |-> result.Moves] ELSE best

\* Lines 90-94; a fault that keeps the latest rollout.
LocalBestLatest(best, finalScore, movesMade) == [Score |-> finalScore, Moves |-> movesMade]

LocalBest(best, finalScore, movesMade) ==
  IF finalScore > best.Score THEN [Score |-> finalScore, Moves |-> movesMade] ELSE best

NoBest == [Score |-> -1, Moves |-> <<>>]

InitSolver ==
  /\ \E k \in 1..Len(SolverSetups) : StartedWith(StartGame(SolverSetups[k], GameObj))
  /\ \E iterations \in 0..MaxIterations, numWorkers \in 1..MaxWorkers :
       mgr = [pc |-> "spawn", iterations |-> iterations, numWorkers |-> numWorkers,
              w |-> 0, best |-> NoBest]
  /\ wk = <<>>
  /\ jobs = [buf |-> <<>>, closed |-> FALSE]
  /\ results = <<>>
  /\ hist = [template |-> games[GameObj], templateView |-> View(games[GameObj], heap),
             enqueued |-> 0, rollouts |-> {}, ran |-> {}, access |-> {},
             received |-> <<>>]

\* Lines 110-112.
SpawnWorkers ==
  /\ mgr.pc = "spawn"
  /\ mgr' = [mgr EXCEPT !.pc = "distribute"]
  /\ wk' = [w \in 0..(mgr.numWorkers - 1) |->
              [pc |-> "start", job |-> [NumSimulations |-> 0, Seed |-> 0], i |-> 0,
               localBest |-> NoBest, movesMade |-> <<>>]]
  /\ UNCHANGED <<games, heap, last, jobs, results, hist>>

\* Lines 114-125: the channel has room for every job, so no send blocks.
DistributeJobs ==
  /\ mgr.pc = "distribute"
  /\ jobs' = [buf |-> jobs.buf \o JobsFor(mgr.iterations, mgr.numWorkers), closed |-> TRUE]
  /\ mgr' = [mgr EXCEPT !.pc = "collect", !.w = 0]
  /\ hist' = [hist EXCEPT !.enqueued = Len(JobsFor(mgr.iterations, mgr.numWorkers))]
  /\ UNCHANGED <<games, heap, last, wk, results>>

\* Lines 131-138, a receive.
ReceiveResult ==
  /\ mgr.pc = "collect"
  /\ mgr.w < mgr.numWorkers
  /\ Receives(mgr.iterations, mgr.numWorkers, mgr.w)
  /\ results /= <<>>
  /\ mgr' = [mgr EXCEPT !.w = @ + 1, !.best = Reduce(@, Head(results))]
  /\ results' = Tail(results)
  /\ hist' = [hist EXCEPT !.received = Append(@, Head(results))]
  /\ UNCHANGED <<games, heap, last, wk, jobs>>

\* Lines 130-131, an iteration that receives nothing.
SkipReceive ==
  /\ mgr.pc = "collect"
  /\ mgr.w < mgr.numWorkers
  /\ ~Receives(mgr.iterations, mgr.numWorkers, mgr.w)
  /\ mgr' = [mgr EXCEPT !.w = @ + 1]
  /\ UNCHANGED <<games, heap, last, wk, jobs, results, hist>>

\* Line 143.
ReturnBest ==
  /\ mgr.pc = "collect"
  /\ mgr.w >= mgr.numWorkers
  /\ mgr' = [mgr EXCEPT !.pc = "done"]
  /\ UNCHANGED <<games, heap, last, wk, jobs, results, hist>>

Touched(w) == {<<w, simulatedGame(w)>>, <<w, tempGame(w)>>}

\* Worker w holds the games sim and temp over the heap h.
Holds(w, sim, temp, h) ==
  /\ games' = [o \in DOMAIN games \cup {simulatedGame(w), tempGame(w)} |->
                 IF o = tempGame(w) THEN temp
                 ELSE IF o = simulatedGame(w) THEN sim ELSE games[o]]
  /\ heap' = Collect(games', h)

\* Lines 44-45, sim being the first copy.
CopiedTwice(w, sim, temp) == Holds(w, sim.g, temp.g, temp.h)

CopiedOnce(w, sim) ==
  CopiedTwice(w, sim, DeepCopy(games[GameObj], sim.h, tempGame(w)))

StartWorker ==
  \E w \in DOMAIN wk :
    /\ wk[w].pc = "start"
    /\ CopiedOnce(w, DeepCopy(games[GameObj], heap, simulatedGame(w)))
    /\ wk' = [wk EXCEPT ![w].pc = "range"]
    /\ hist' = [hist EXCEPT !.access = @ \cup Touched(w)]
    /\ UNCHANGED <<last, mgr, jobs, results>>

\* A fault: the job received stays in the channel.
TakeJobLeavesItQueued ==
  \E w \in DOMAIN wk :
    /\ wk[w].pc = "range"
    /\ jobs.buf /= <<>>
    /\ wk' = [wk EXCEPT ![w] = [pc |-> "loop", job |-> Head(jobs.buf), i |-> 0,
                                localBest |-> NoBest, movesMade |-> <<>>]]
    /\ UNCHANGED <<games, heap, last, mgr, jobs, results, hist>>

\* Lines 47-51.
TakeJob ==
  \E w \in DOMAIN wk :
    /\ wk[w].pc = "range"
    /\ jobs.buf /= <<>>
    /\ jobs' = [jobs EXCEPT !.buf = Tail(@)]
    /\ wk' = [wk EXCEPT ![w] = [pc |-> "loop", job |-> Head(jobs.buf), i |-> 0,
                                localBest |-> NoBest, movesMade |-> <<>>]]
    /\ UNCHANGED <<games, heap, last, mgr, results, hist>>

\* Line 47 on the closed, drained channel: the worker returns.
ExitWorker ==
  \E w \in DOMAIN wk :
    /\ wk[w].pc = "range"
    /\ jobs.buf = <<>>
    /\ jobs.closed
    /\ wk' = [wk EXCEPT ![w].pc = "exited"]
    /\ games' = [o \in DOMAIN games \ {simulatedGame(w), tempGame(w)} |-> games[o]]
    /\ heap' = Collect(games', heap)
    /\ UNCHANGED <<last, mgr, jobs, results, hist>>

\* Lines 53-55.
WasReset(w, r) == Holds(w, r.g, games[tempGame(w)], r.h)

BeginSimulation ==
  \E w \in DOMAIN wk :
    /\ wk[w].pc = "loop"
    /\ wk[w].i < wk[w].job.NumSimulations
    /\ WasReset(w, Reset(games[simulatedGame(w)], heap, simulatedGame(w), games[GameObj]))
    /\ wk' = [wk EXCEPT ![w].pc = "rollout", ![w].movesMade = <<>>]
    /\ hist' = [hist EXCEPT !.access = @ \cup Touched(w)]
    /\ UNCHANGED <<last, mgr, jobs, results>>

\* Lines 67-75 from move k on: temp is reset to sim and the move tried on it.
RECURSIVE TrialLoop(_, _, _, _, _, _)
TrialKept(m, rest) == [rest EXCEPT !.matchingMoves = <<m>> \o @]

TrialMoved(r, tid, sim, possibleMoves, k) ==
  IF r.ret
  THEN TrialKept(possibleMoves[k], TrialLoop(r.g, r.h, tid, sim, possibleMoves, k + 1))
  ELSE TrialLoop(r.g, r.h, tid, sim, possibleMoves, k + 1)

TrialReset(r, tid, sim, possibleMoves, k) ==
  TrialMoved(MakeMove(r.g, r.h, tid, possibleMoves[k].Source, possibleMoves[k].Destination),
             tid, sim, possibleMoves, k)

TrialLoop(temp, h, tid, sim, possibleMoves, k) ==
  IF k > Len(possibleMoves) THEN [g |-> temp, h |-> h, matchingMoves |-> <<>>]
  ELSE TrialReset(Reset(temp, h, tid, sim), tid, sim, possibleMoves, k)

\* Lines 64-81: the scratch game and heap after the choice, and the moves
\* that cleared in the trial.
Trial(w, possibleMoves) ==
  IF CalculateScore(games[simulatedGame(w)]) = 0
  THEN [g |-> games[tempGame(w)], h |-> heap, matchingMoves |-> <<>>]
  ELSE TrialLoop(games[tempGame(w)], heap, tempGame(w), games[simulatedGame(w)],
                 possibleMoves, 1)

\* Lines 82-86, r being what simulatedGame.MakeMove returned.
Rolled(w, t, chosenMove, r) ==
  /\ Holds(w, r.g, t.g, r.h)
  /\ wk' = [wk EXCEPT ![w].movesMade = Append(@, chosenMove),
                      ![w].pc = IF Len(wk[w].movesMade) + 1 > MaxMovesMade
                                THEN "finish" ELSE "rollout"]

Chosen(w, t, chosenMove) ==
  Rolled(w, t, chosenMove,
         MakeMove(games[simulatedGame(w)], t.h, simulatedGame(w), chosenMove.Source,
                  chosenMove.Destination))

\* Lines 63-81: r.Float64() < 0.8 and r.Intn are free choices.
Choose(w, t, possibleMoves) ==
  \E lucky \in BOOLEAN :
    IF Len(t.matchingMoves) > 0 /\ lucky
    THEN \E k \in 1..Len(t.matchingMoves) : Chosen(w, t, t.matchingMoves[k])
    ELSE \E k \in 1..Len(possibleMoves) : Chosen(w, t, possibleMoves[k])

RolloutFrom(w, possibleMoves) ==
  /\ Len(possibleMoves) > 0
  /\ Choose(w, Trial(w, possibleMoves), possibleMoves)

\* Lines 57-86, one pass of the loop.
RolloutMove ==
  \E w \in DOMAIN wk :
    /\ wk[w].pc = "rollout"
    /\ ~IsSolved(games[simulatedGame(w)])
    /\ RolloutFrom(w, getPossibleMovesForSimulation(games[simulatedGame(w)], heap))
    /\ hist' = [hist EXCEPT !.access = @ \cup Touched(w)]
    /\ UNCHANGED <<last, mgr, jobs, results>>

\* Lines 57-60 and 84-95: the rollout has ended.
FinishSimulation ==
  \E w \in DOMAIN wk :
    /\ \/ wk[w].pc = "finish"
       \/ /\ wk[w].pc = "rollout"
          /\ \/ IsSolved(games[simulatedGame(w)])
             \/ Len(getPossibleMovesForSimulation(games[simulatedGame(w)], heap)) = 0
    /\ wk' = [wk EXCEPT ![w].pc = "loop", ![w].i = @ + 1, ![w].movesMade = <<>>,
                        ![w].localBest = LocalBest(@, CalculateScore(games[simulatedGame(w)]),
                                                   wk[w].movesMade)]
    /\ hist' = [hist EXCEPT !.rollouts = @ \cup {CalculateScore(games[simulatedGame(w)])},
                            !.ran = @ \cup {w}]
    /\ UNCHANGED <<games, heap, last, mgr, jobs, results>>

\* Line 96: results has room for one result per job.
SendResult ==
  \E w \in DOMAIN wk :
    /\ wk[w].pc = "loop"
    /\ wk[w].i >= wk[w].job.NumSimulations
    /\ Len(results) < mgr.numWorkers
    /\ results' = Append(results, wk[w].localBest)
    /\ wk' = [wk EXCEPT ![w].pc = "range"]
    /\ UNCHANGED <<games, heap, last, mgr, jobs, hist>>

NextSolver ==
  \/ SpawnWorkers
  \/ DistributeJobs
  \/ ReceiveResult
  \/ SkipReceive
  \/ ReturnBest
  \/ StartWorker
  \/ TakeJob
  \/ ExitWorker
  \/ BeginSimulation
  \/ RolloutMove
  \/ FinishSimulation
  \/ SendResult

SpecSolver == InitSolver /\ [][NextSolver]_vars


(***************************************************************************)
(* IsMatchingPair on its own: two stone values are drawn, then the         *)
(* function is applied to them.                                            *)
(***************************************************************************)
MaxStone == 14

\* The values a caller passes: the empty sentinel -1, 0, the stones 1..13, and
\* values past them.
StoneInputs == (-1)..MaxStone

InitPure ==
  /\ games = <<>>
  /\ heap = <<>>
  /\ \E a \in StoneInputs, b \in StoneInputs :
       last = [op |-> "input", stone1 |-> a, stone2 |-> b, ret |-> FALSE]
  /\ NoSolver

CallIsMatchingPair ==
  /\ last.op = "input"
  /\ last' = [last EXCEPT !.op = "IsMatchingPair",
                          !.ret = IsMatchingPair(last.stone1, last.stone2)]
  /\ UNCHANGED <<games, heap, mgr, wk, jobs, results, hist>>

NextPure == CallIsMatchingPair

SpecPure == InitPure /\ [][NextPure]_vars


(***************************************************************************)
(* Properties of MakeMove and CalculateScore, stated on the last call and  *)
(* the views before and after it.                                          *)
(***************************************************************************)
Before == last.pre[last.obj]

After == View(games[last.obj], heap)

IsCell(label) == ~StringToIndices(label).err

IsEndpoint(label) == label \in {HOLD, DRW1} \/ IsCell(label)

\* The moves of the move encoding: advance draw, a solo discard of a cell or
\* of the visible draw stone, or two distinct endpoints.
WellFormed(source, destination) ==
  \/ source = DRAW /\ destination = DRAW
  \/ destination = SMASH /\ (source = DRW1 \/ IsCell(source))
  \/ IsEndpoint(source) /\ IsEndpoint(destination) /\ source /= destination

\* The stone a label denotes in view v, -1 when there is none.
StoneIn(v, label) ==
  IF label = HOLD THEN v.hold
  ELSE IF label = DRW1 THEN v.drawStone
  ELSE v.pyramid[StringToIndices(label).row][StringToIndices(label).col]

\* An endpoint cell that is empty or not accessible in view v.
BlockedCell(v, label) ==
  /\ IsCell(label)
  /\ ~IsAccessible(v, StringToIndices(label).row, StringToIndices(label).col)

\* The well-formed moves that are illegal in view v: a blocked endpoint cell,
\* an empty hold as source, a draw endpoint with no stone visible, a solo
\* discard of a stone other than 13, and a pair that does not match (which
\* is a placement, and legal, when it goes to an empty hold).
Illegal(v, source, destination) ==
  \/ BlockedCell(v, source)
  \/ destination /= SMASH /\ BlockedCell(v, destination)
  \/ source = HOLD /\ v.hold = -1
  \/ DRW1 \in {source, destination} /\ v.drawStone = -1
  \/ destination = SMASH /\ StoneIn(v, source) /= 13
  \/ /\ destination /= SMASH
     /\ source /= DRAW
     /\ ~IsMatchingPair(StoneIn(v, source), StoneIn(v, destination))
     /\ ~(destination = HOLD /\ v.hold = -1)

\* C1: a well-formed move that is illegal in the state it is made in returns
\* false and leaves the board, the hold, every draw-pile segment, the cursor,
\* numActiveSegments, matches, streakBonus and redraws as they were.
C1_SilentReject ==
  (/\ last.op = "MakeMove"
   /\ WellFormed(last.source, last.destination)
   /\ Illegal(Before, last.source, last.destination))
  => /\ ~last.panic
     /\ ~last.ret
     /\ After.pyramid = Before.pyramid
     /\ After.hold = Before.hold
     /\ After.pile = Before.pile
     /\ After.currentSegment = Before.currentSegment
     /\ After.numActiveSegments = Before.numActiveSegments
     /\ After.matches = Before.matches
     /\ After.streakBonus = Before.streakBonus
     /\ After.redraws = Before.redraws

\* C2: MakeMove raises no runtime error, whatever the two labels are, and
\* returns false when they are not a well-formed move.
C2_NeverPanics ==
  last.op = "MakeMove"
  => /\ ~last.panic
     /\ (~WellFormed(last.source, last.destination) => ~last.ret)

FormulaScore(g, h) ==
  LET cells == {<<r, c>> \in (0..6) \X (0..6) : c < 7 - r}
      empty == Cardinality({p \in cells : g.pyramid[p[1]][p[2]] = -1})
      solved == empty = 28
      cards == Cardinality({i \in {0} : g.hold /= -1})
               + Cardinality({<<i, k>> \in SegIdx \X (1..3) : k <= Len(Elems(h, g.drawPile[i]))})
      total == 50 * g.matches + (IF solved THEN 50 * cards ELSE 0) - 50 * g.redraws
               + g.streakBonus + (IF solved THEN 500 ELSE 0) + ((720 * empty) \div 28)
  IN  IF total < 0 THEN 0 ELSE total

\* C6: in every reachable state CalculateScore equals max(0, 50*matches +
\* (solved ? 50*(cards in hold and segments) : 0) - 50*redraws + streakBonus
\* + (solved ? 500 : 0) + floor(720 * emptyBoardCells / 28)), and so is never
\* negative.
C6_ScoreFormula ==
  \A o \in DOMAIN games :
    /\ CalculateScore(games[o]) = FormulaScore(games[o], heap)
    /\ CalculateScore(games[o]) >= 0

\* A solved game with stones left in the pile, after a redraw.
C6_SolvedWithStonesLeft ==
  /\ last.op = "MakeMove"
  /\ After.solved
  /\ \E i \in SegIdx : After.pile[i] /= <<>>
  /\ After.redraws > 0
  /\ After.score > 0


Accessors(v) ==
  [cells |-> v.pyramid, hold |-> v.hold, redraws |-> v.redraws,
   numActiveSegments |-> v.numActiveSegments, drawStone |-> v.drawStone,
   solved |-> v.solved, score |-> v.score]

\* The arrays the segments of a game refer to.
Backing(g) == {g.drawPile[i].arr : i \in SegIdx} \ {NilArr}

\* C10: after c := g.DeepCopy() and after c.Reset(g) every accessor of c
\* equals that of g; a move made on one object leaves every accessor of the
\* other as it was; and no two objects share a backing array.
C10_CopiesAreIndependent ==
  /\ last.op \in {"DeepCopy", "Reset"}
     => Accessors(View(games[last.obj], heap)) = Accessors(View(games[last.src], heap))
  /\ last.op = "MakeMove"
     => \A o \in DOMAIN games \ {last.obj} :
          /\ o \in DOMAIN last.pre
          /\ Accessors(View(games[o], heap)) = Accessors(last.pre[o])
  /\ \A o1 \in DOMAIN games, o2 \in DOMAIN games :
       o1 /= o2 => Backing(games[o1]) \cap Backing(games[o2]) = {}

\* A redraw on the copy, after it was reset twice, with the original present.
C10_RedrawAfterTwoResets ==
  /\ last.op = "MakeMove"
  /\ last.obj = CopyObj
  /\ last.resets >= 2
  /\ After.redraws > Before.redraws
  /\ GameObj \in DOMAIN games


(***************************************************************************)
(* Properties of the solver.                                               *)
(***************************************************************************)
Done == mgr.pc = "done"

\* The manager waits for a result, and no worker is left to send one.
Starved ==
  /\ mgr.pc = "collect"
  /\ mgr.w < mgr.numWorkers
  /\ Receives(mgr.iterations, mgr.numWorkers, mgr.w)
  /\ results = <<>>
  /\ jobs.buf = <<>>
  /\ \A w \in DOMAIN wk : wk[w].pc = "exited"

\* C4: the number of results the manager blocks to receive equals the number
\* of jobs it enqueued, and the manager never waits for a result that no
\* worker will send.
C4_ManagerNeverStarves ==
  /\ mgr.pc \in {"collect", "done"}
     => Cardinality({w \in 0..(mgr.numWorkers - 1) :
                       Receives(mgr.iterations, mgr.numWorkers, w)}) = hist.enqueued
  /\ ~Starved

\* The game after moves are made, one by one, on the game g of object self.
RECURSIVE Replay(_, _, _, _)
Replayed(r, self, moves) ==
  IF r.panic THEN r.g ELSE Replay(r.g, r.h, self, moves)

Replay(g, h, self, moves) ==
  IF moves = <<>> THEN g
  ELSE Replayed(MakeMove(g, h, self, Head(moves).Source, Head(moves).Destination), self,
                Tail(moves))

ReplayOn(c, self, moves) == CalculateScore(Replay(c.g, c.h, self, moves))

\* The score of moves replayed on a fresh copy of the template.
ReplayScore(moves) ==
  ReplayOn(DeepCopy(games[GameObj], heap, <<"replay", 0>>), <<"replay", 0>>, moves)

\* C7 as stated: the score returned is the maximum of the final scores of all
\* rollouts, and the moves returned, replayed on a fresh copy of the
\* template, give that score.
C7_ReturnsBestRollout ==
  Done => /\ \A score \in hist.rollouts : score <= mgr.best.Score
          /\ hist.rollouts /= {} => mgr.best.Score \in hist.rollouts
          /\ ReplayScore(mgr.best.Moves) = mgr.best.Score

\* C7, amended: for a budget of at least one iteration, the score returned is
\* the maximum of the final scores of all rollouts, and the moves returned,
\* replayed on a fresh copy of the template, give that score.
C7_ReturnsBestRolloutOfBudget ==
  (Done /\ mgr.iterations >= 1)
  => /\ hist.rollouts /= {}
     /\ mgr.best.Score \in hist.rollouts
     /\ \A score \in hist.rollouts : score <= mgr.best.Score
     /\ ReplayScore(mgr.best.Moves) = mgr.best.Score

\* The search returned after rollouts with two different final scores.
C7_ReturnedAfterDifferentRollouts ==
  /\ Done
  /\ Cardinality(hist.rollouts) >= 2
  /\ Len(mgr.best.Moves) >= 1

\* The orders n results can arrive in.
Orders(n) == {p \in [1..n -> 1..n] : \A i \in 1..n, j \in 1..n : p[i] = p[j] => i = j}

\* The manager's reduction of a sequence of results.
RECURSIVE Reduction(_, _)
Reduction(best, arrived) ==
  IF arrived = <<>> THEN best ELSE Reduction(Reduce(best, Head(arrived)), Tail(arrived))

\* C8 as stated: the pair returned is the pair the manager's reduction gives
\* for every order in which the same results can arrive.
C8_SameForEveryOrder ==
  Done => \A p \in Orders(Len(hist.received)) :
            Reduction(NoBest, [k \in 1..Len(hist.received) |-> hist.received[p[k]]])
            = mgr.best

\* C8, amended: the score returned is the greatest score received, whatever
\* the order of arrival, and the moves returned are those of the first result
\* to arrive with that score; with no result, -1 and no moves.
C8_FirstBestArrivalWins ==
  Done =>
    /\ \A p \in Orders(Len(hist.received)) :
         Reduction(NoBest, [k \in 1..Len(hist.received) |-> hist.received[p[k]]]).Score
         = mgr.best.Score
    /\ hist.received = <<>> => mgr.best = NoBest
    /\ \A k \in 1..Len(hist.received) :
         /\ hist.received[k].Score <= mgr.best.Score
         /\ (/\ hist.received[k].Score = mgr.best.Score
             /\ \A j \in 1..(k - 1) : hist.received[j].Score < mgr.best.Score)
            => mgr.best.Moves = hist.received[k].Moves
    /\ hist.received /= <<>>
       => \E k \in 1..Len(hist.received) : hist.received[k].Score = mgr.best.Score

\* Two results with the best score and different moves were received.
C8_TieWithDifferentMoves ==
  /\ Done
  /\ \E i \in 1..Len(hist.received), j \in 1..Len(hist.received) :
       /\ i < j
       /\ hist.received[i].Score = mgr.best.Score
       /\ hist.received[j].Score = mgr.best.Score
       /\ hist.received[i].Moves /= hist.received[j].Moves

\* C9: throughout a search the template is as it was when the search began;
\* no game object is used by two workers, the template is used by none other
\* than to copy from it, and no two game objects share a backing array.
C9_TemplateAndBuffersPrivate ==
  /\ GameObj \in DOMAIN games
  /\ games[GameObj] = hist.template
  /\ View(games[GameObj], heap) = hist.templateView
  /\ \A a \in hist.access, b \in hist.access : a[2] = b[2] => a[1] = b[1]
  /\ \A a \in hist.access : a[2] /= GameObj
  /\ \A o1 \in DOMAIN games, o2 \in DOMAIN games :
       o1 /= o2 => Backing(games[o1]) \cap Backing(games[o2]) = {}

\* The search returned after two workers ran rollouts.
C9_TwoWorkersRan ==
  /\ Done
  /\ Cardinality(hist.ran) >= 2
  /\ hist.templateView.redraws > 0


(***************************************************************************)
(* SetupCustomGame on its own: a caller holds a fresh game and two slices  *)
(* of any length, then calls SetupCustomGame with them.                    *)
(***************************************************************************)
\* How far past the two limits (28 board values, 24 draw-pile values) the
\* lengths of the inputs go, and how much spare capacity a slice may have.
MaxOver == 1

\* A slice of n values over InputArr with spare capacity left in its array.
InputWithSpare(n, spare) == [arr |-> InputArr, off |-> 0, len |-> n, cap |-> n + spare]

StonesFrom(first, n) == [k \in 1..n |-> ((first + k - 2) % 13) + 1]

InitSetup ==
  /\ games = [o \in {GameObj} |-> NewPuzzleGame]
  /\ \E np \in (TotalPyramidStones - MaxOver)..(TotalPyramidStones + MaxOver),
        nd \in 0..(MaxDrawPileSegments * StonesPerSegment + MaxOver),
        first \in 1..2, spare \in {0, MaxOver} :
       /\ heap = [a \in {InputArr} |-> StonesFrom(first + 1, nd + spare)]
       /\ last = [op |-> "new", pyramidStones |-> StonesFrom(first, np),
                  drawPileStones |-> InputWithSpare(nd, spare),
                  err |-> FALSE, panic |-> FALSE, pre |-> NewPuzzleGame]
  /\ NoSolver

\* err = g.SetupCustomGame(pyramidStones, drawPileStones)
SetUp(r) ==
  /\ games' = [games EXCEPT ![GameObj] = r.g]
  /\ last' = [last EXCEPT !.op = "SetupCustomGame", !.err = r.err, !.panic = r.panic,
                          !.pre = games[GameObj]]

CallSetupCustomGame ==
  /\ last.op = "new"
  /\ SetUp(SetupCustomGame(games[GameObj], last.pyramidStones, last.drawPileStones))
  /\ UNCHANGED <<heap, mgr, wk, jobs, results, hist>>

NextSetup == CallSetupCustomGame

SpecSetup == InitSetup /\ [][NextSetup]_vars

\* The draw-pile values passed to the last SetupCustomGame, in input order.
DrawPileInput == Elems(heap, last.drawPileStones)

\* The board holds the 28 values row-major from row 0.
FilledRowMajor(g, pyramidStones) ==
  \A i \in 1..TotalPyramidStones :
    g.pyramid[getAllPyramidPositions[i][1]][getAllPyramidPositions[i][2]] = pyramidStones[i]

\* Segment i holds the input values 3i+1 .. 3i+3 that exist, in input order.
PackedInOrder(g, h, stones) ==
  \A i \in SegIdx :
    Elems(h, g.drawPile[i]) =
      [k \in 1..(IF Len(stones) >= SegStart(i) + StonesPerSegment THEN StonesPerSegment
                 ELSE IF Len(stones) > SegStart(i) THEN Len(stones) - SegStart(i)
                 ELSE 0) |-> stones[SegStart(i) + k]]

\* C11: SetupCustomGame with exactly 28 board values and 0 <= n <= 24
\* draw-pile values returns no error and raises no runtime error, fills the
\* board row-major from row 0 and packs the draw-pile values in input order
\* into consecutive segments of 3; with another board count or n > 24 it
\* returns an error and leaves the game as it was.
C11_SetupSucceedsOrRejects ==
  last.op = "SetupCustomGame"
  => IF /\ Len(last.pyramidStones) = TotalPyramidStones
        /\ last.drawPileStones.len <= MaxDrawPileSegments * StonesPerSegment
     THEN /\ ~last.err
          /\ ~last.panic
          /\ FilledRowMajor(games[GameObj], last.pyramidStones)
          /\ PackedInOrder(games[GameObj], heap, DrawPileInput)
     ELSE /\ last.err
          /\ ~last.panic
          /\ games[GameObj] = last.pre

\* The part of C11 the code keeps: setup with 28 board values and 21 to 24
\* draw-pile values succeeds, and a wrong count is rejected with the game
\* unchanged.
C11_SetupOfFullPile ==
  last.op = "SetupCustomGame"
  => IF /\ Len(last.pyramidStones) = TotalPyramidStones
        /\ last.drawPileStones.len <= MaxDrawPileSegments * StonesPerSegment
     THEN \/ last.panic /\ last.drawPileStones.len < SegStart(MaxDrawPileSegments - 1)
          \/ /\ ~last.err
             /\ ~last.panic
             /\ last.drawPileStones.len >= SegStart(MaxDrawPileSegments - 1)
             /\ FilledRowMajor(games[GameObj], last.pyramidStones)
             /\ PackedInOrder(games[GameObj], heap, DrawPileInput)
     ELSE /\ last.err
          /\ ~last.panic
          /\ games[GameObj] = last.pre

\* An empty draw pile was passed with 28 board values, and the call ended in
\* a runtime error.
C11_EmptyPilePanics ==
  /\ last.op = "SetupCustomGame"
  /\ Len(last.pyramidStones) = TotalPyramidStones
  /\ last.drawPileStones.len = 0
  /\ last.panic


(***************************************************************************)
(* Properties of the rollout loop.                                         *)
(***************************************************************************)
\* C12: every rollout applies and records at most as many moves as the
\* ceiling (200 in the source): no move sequence a worker is recording, no
\* local best, no result in flight and no best of the manager is longer.
C12_AtMostCeilingMoves ==
  /\ \A w \in DOMAIN wk :
       /\ Len(wk[w].movesMade) <= MaxMovesMade
       /\ Len(wk[w].localBest.Moves) <= MaxMovesMade
  /\ \A k \in 1..Len(results) : Len(results[k].Moves) <= MaxMovesMade
  /\ mgr.pc /= "idle" => Len(mgr.best.Moves) <= MaxMovesMade

\* What the loop keeps: a recorded sequence is at most one move longer than
\* the ceiling, the test at line 84 coming after the append.
C12_AtMostOnePastCeiling ==
  /\ \A w \in DOMAIN wk :
       /\ Len(wk[w].movesMade) <= MaxMovesMade + 1
       /\ Len(wk[w].localBest.Moves) <= MaxMovesMade + 1
  /\ \A k \in 1..Len(results) : Len(results[k].Moves) <= MaxMovesMade + 1
  /\ mgr.pc /= "idle" => Len(mgr.best.Moves) <= MaxMovesMade + 1

\* SolveMonteCarlo has returned a sequence one move longer than the ceiling.
C12_ReturnedPastCeiling ==
  /\ mgr.pc = "done"
  /\ Len(mgr.best.Moves) = MaxMovesMade + 1


(***************************************************************************)
(* The board queries: a game is set up and played for a few moves, then a  *)
(* caller asks IsAccessible of every cell, or asks the move generator for  *)
(* the candidate moves.                                                    *)
(***************************************************************************)
MaxBoardSteps == 6

\* A1 = 4, A2 = 9, A3 = 3 and 13 everywhere else.
BoardPyramid == <<4, 9, 3>> \o Thirteens(TotalPyramidStones - 3)

\* Hold empty with 9 visible; 9 in the hold with 2 visible; 3 in the hold with
\* 9 visible.
BoardSetups ==
  <<[pyramid |-> BoardPyramid, pile |-> <<1, 2, 9>> \o Thirteens(21), lead |-> "none"],
    [pyramid |-> BoardPyramid, pile |-> <<1, 2, 9>> \o Thirteens(21), lead |-> "hold"],
    [pyramid |-> BoardPyramid, pile |-> <<1, 9, 3>> \o Thirteens(21), lead |-> "hold"]>>

\* The moves the caller makes: solo discards of six cells of rows A and B
\* (MakeMove asks for no accessibility) and advance draw.
BoardMoves ==
  {Move(<<"A", c>>, SMASH) : c \in {"4", "5", "6", "7"}}
  \cup {Move(<<"B", c>>, SMASH) : c \in {"4", "5"}}
  \cup {Move(DRAW, DRAW)}

InitBoard ==
  /\ \E k \in 1..Len(BoardSetups) : StartedWith(StartGame(BoardSetups[k], GameObj))
  /\ NoSolver

Playing == last.op \in {"init", "MakeMove"}

CallMakeMoveOnBoard ==
  /\ Playing
  /\ last.steps < MaxBoardSteps
  /\ \E m \in BoardMoves : MakeMoveOn(GameObj, m)
  /\ UNCHANGED <<mgr, wk, jobs, results, hist>>

\* g.IsAccessible(row, col) for every cell of the board.
CallIsAccessible ==
  /\ Playing
  /\ last' = [op |-> "IsAccessible",
              ret |-> [p \in {getAllPyramidPositions[i] : i \in 1..TotalPyramidStones} |->
                         IsAccessible(games[GameObj], p[1], p[2])]]
  /\ UNCHANGED <<games, heap, mgr, wk, jobs, results, hist>>

\* s.getPossibleMovesForSimulation(g)
CallGetPossibleMoves ==
  /\ Playing
  /\ last' = [op |-> "getPossibleMovesForSimulation",
              ret |-> getPossibleMovesForSimulation(games[GameObj], heap)]
  /\ UNCHANGED <<games, heap, mgr, wk, jobs, results, hist>>

NextBoard == CallMakeMoveOnBoard \/ CallIsAccessible \/ CallGetPossibleMoves

SpecBoard == InitBoard /\ [][NextBoard]_vars

Board == games[GameObj].pyramid

Occupied(r, c) == Board[r][c] /= -1

\* C13: for every cell (r, c) with 0 <= r <= 6 and 0 <= c < 7 - r,
\* IsAccessible(r, c) is true exactly when the cell is occupied and r = 0 or
\* both cells (r-1, c) and (r-1, c+1) are empty; A1 = (0, 0) is accessible
\* whenever it is occupied.
C13_AccessibleIffUncovered ==
  last.op = "IsAccessible"
  => /\ \A r \in 0..(MaxPyramidRows - 1) : \A c \in 0..(MaxPyramidCols - 1 - r) :
          last.ret[<<r, c>>]
            <=> (Occupied(r, c) /\ (r = 0 \/ (~Occupied(r - 1, c) /\ ~Occupied(r - 1, c + 1))))
     /\ Occupied(0, 0) => last.ret[<<0, 0>>]

\* IsAccessible was asked on a board where C4 is accessible (B4 and B5 gone),
\* B3 is covered by A3 alone (A4 gone), B6 by A6 alone (A7 gone), and A1 is
\* occupied.
C13_UncoveredAndHalfCovered ==
  /\ last.op = "IsAccessible"
  /\ last.ret[<<2, 3>>]
  /\ Occupied(1, 2) /\ Occupied(0, 2) /\ ~Occupied(0, 3) /\ ~last.ret[<<1, 2>>]
  /\ Occupied(1, 5) /\ Occupied(0, 5) /\ ~Occupied(0, 6) /\ ~last.ret[<<1, 5>>]
  /\ last.ret[<<0, 0>>]


\* The label of cell (r, c), and the stone a label denotes in the game set up.
CellLabel(r, c) == IndicesToString(r, c).str

Uncovered(r, c) ==
  Occupied(r, c) /\ (r = 0 \/ (~Occupied(r - 1, c) /\ ~Occupied(r - 1, c + 1)))

Offered(source, destination) ==
  \E k \in 1..Len(last.ret) : last.ret[k] = Move(source, destination)

\* A candidate that pairs two endpoints: neither advance draw, nor a solo
\* discard, nor a placement into the empty hold.
IsPairMove(m) ==
  /\ m.Destination \notin {SMASH, DRAW}
  /\ ~(m.Destination = HOLD /\ games[GameObj].hold = -1)

\* C19: with the hold empty the move generator offers a placement into the
\* hold for every accessible cell whose value is not 13, and it never offers
\* a pair move between two endpoints whose values do not match; with the
\* hold empty, 9 visible on the draw pile and an accessible cell of value 4
\* it offers cell -> hold for that cell and no pair move between the cell and
\* the draw card.
C19_PlacementsAndMatchingPairs ==
  last.op = "getPossibleMovesForSimulation"
  => /\ \A r \in 0..(MaxPyramidRows - 1) : \A c \in 0..(MaxPyramidCols - 1 - r) :
          (games[GameObj].hold = -1 /\ Uncovered(r, c) /\ Board[r][c] /= 13)
          => /\ Offered(CellLabel(r, c), HOLD)
             /\ (Board[r][c] = 4 /\ GetCurrentDrawStone(games[GameObj], heap) = 9)
                => /\ ~Offered(CellLabel(r, c), DRW1)
                   /\ ~Offered(DRW1, CellLabel(r, c))
     /\ \A k \in 1..Len(last.ret) :
          IsPairMove(last.ret[k])
          => IsMatchingPair(StoneIn(View(games[GameObj], heap), last.ret[k].Source),
                            StoneIn(View(games[GameObj], heap), last.ret[k].Destination))

\* The generator was asked with the hold empty, 9 visible and the accessible
\* cell A1 = 4, and offered the pair move A1 -> A3 (4 and 3) as well.
C19_FourAgainstNine ==
  /\ last.op = "getPossibleMovesForSimulation"
  /\ games[GameObj].hold = -1
  /\ GetCurrentDrawStone(games[GameObj], heap) = 9
  /\ Board[0][0] = 4
  /\ Offered(<<"A", "1">>, HOLD)
  /\ Offered(<<"A", "1">>, <<"A", "3">>)

\* C20: on every move on which MakeMove returns true the streak goes up by
\* exactly 1 and streakBonus then goes up by 0 if the new streak is 1, by
\* (streak - 1) * 50 if it is 2, 3 or 4, and by 200 if it is 5 or more; on
\* every other move streakBonus is unchanged.
C20_StreakBonusRule ==
  (last.op = "MakeMove" /\ ~last.panic)
  => IF last.ret
     THEN /\ After.streak = Before.streak + 1
          /\ After.streakBonus - Before.streakBonus =
               (IF After.streak = 1 THEN 0
                ELSE IF After.streak \in 2..4 THEN (After.streak - 1) * 50
                ELSE 200)
     ELSE After.streakBonus = Before.streakBonus

\* The sixth clearing move in a row: the bonus stands at
\* 50 + 100 + 150 + 200 + 200.
C20_SixthInARow ==
  /\ last.op = "MakeMove"
  /\ last.ret
  /\ After.streak = 6
  /\ After.streakBonus = 700


(***************************************************************************)
(* The draw pile: games whose pile a redraw has left short, or whose       *)
(* cursor stands on the last segment, and a caller moving stones between   *)
(* the pile, the hold and the cell G1.                                     *)
(***************************************************************************)
MaxPileSteps == 5

\* After the lead: G1 = 6 with the pile [1, 6, 3] [4]; the example puzzle with
\* the cursor on the last of its 8 segments; G1 = 6 with the pile
\* [1, 6, 3] [4, 2, 5] [11].
PileSetups ==
  <<[pyramid |-> ApexPyramid, pile |-> <<1, 6, 3, 4>> \o Thirteens(20), lead |-> "smash"],
    Setups[2],
    [pyramid |-> ApexPyramid, pile |-> <<1, 6, 3, 4, 2, 5, 11>> \o Thirteens(17),
     lead |-> "smash"]>>

PileMoves ==
  {Move(DRAW, DRAW), Move(DRW1, HOLD), Move(HOLD, DRW1), Move(<<"G", "1">>, DRW1),
   Move(DRW1, SMASH)}

InitPile ==
  /\ \E k \in 1..Len(PileSetups) : StartedWith(StartGame(PileSetups[k], GameObj))
  /\ NoSolver

CallMakeMoveOnPile ==
  /\ last.steps < MaxPileSteps
  /\ \E m \in PileMoves : MakeMoveOn(GameObj, m)
  /\ UNCHANGED <<mgr, wk, jobs, results, hist>>

NextPile == CallMakeMoveOnPile

SpecPile == InitPile /\ [][NextPile]_vars

\* The cards of a pile, segment after segment from segment i on.
RECURSIVE CardsFrom(_, _)
CardsFrom(pile, i) ==
  IF i >= MaxDrawPileSegments THEN <<>> ELSE pile[i] \o CardsFrom(pile, i + 1)

\* n cards packed front to back into segments of 3.
PackedFrontToBack(pile, n) ==
  \A i \in SegIdx :
    Len(pile[i]) = IF n >= (i + 1) * StonesPerSegment THEN StonesPerSegment
                   ELSE IF n > i * StonesPerSegment THEN n - i * StonesPerSegment
                   ELSE 0

IsAdvanceDraw == last.op = "MakeMove" /\ last.source = DRAW /\ last.destination = DRAW

\* The advance-draw brought the cursor to numActiveSegments or past it.
ReachedEnd == Before.currentSegment + 1 >= Before.numActiveSegments

\* C14: an advance-draw move that brings the cursor to numActiveSegments does
\* exactly one redraw: redraws goes up by 1, the cursor becomes 0, the cards
\* left in the pile are repacked in their order (segment after segment) into
\* segments of 3 front to back, and numActiveSegments becomes
\* ceil(remaining / 3); an advance-draw that does not get there changes only
\* the cursor (+1) and the streak (besides the move log every call appends
\* to).  Either way the move returns false, sets the streak to 0 and removes
\* no card.
C14_AdvanceDraw ==
  IsAdvanceDraw
  => /\ ~last.panic
     /\ ~last.ret
     /\ After.streak = 0
     /\ CardsFrom(After.pile, 0) = CardsFrom(Before.pile, 0)
     /\ After.pyramid = Before.pyramid
     /\ After.hold = Before.hold
     /\ After.matches = Before.matches
     /\ After.streakBonus = Before.streakBonus
     /\ After.timeRemaining = Before.timeRemaining
     /\ After.moves = Before.moves + 1
     /\ IF ReachedEnd
        THEN /\ After.redraws = Before.redraws + 1
             /\ After.currentSegment = 0
             /\ PackedFrontToBack(After.pile, Len(CardsFrom(Before.pile, 0)))
             /\ After.numActiveSegments
                  = (Len(CardsFrom(Before.pile, 0)) + StonesPerSegment - 1) \div StonesPerSegment
        ELSE /\ After.redraws = Before.redraws
             /\ After.currentSegment = Before.currentSegment + 1
             /\ After.pile = Before.pile
             /\ After.numActiveSegments = Before.numActiveSegments

\* A redraw that moved cards between segments and shortened the pile by a
\* segment, a streak having stood before it.
C14_RedrawRepacked ==
  /\ IsAdvanceDraw
  /\ ReachedEnd
  /\ After.pile /= Before.pile
  /\ After.numActiveSegments < Before.numActiveSegments
  /\ After.numActiveSegments > 0

\* A redraw made with the cursor already past numActiveSegments.
RedrawPastEnd ==
  /\ IsAdvanceDraw
  /\ Before.currentSegment + 1 > Before.numActiveSegments
  /\ Before.numActiveSegments > 0

\* The number of segments from the front up to the last non-empty one.
LastNonEmpty(pile) ==
  IF \A i \in SegIdx : Len(pile[i]) = 0 THEN 0
  ELSE 1 + CHOOSE i \in SegIdx : Len(pile[i]) > 0 /\ \A j \in SegIdx : j > i => Len(pile[j]) = 0

\* C15 as stated: in every reachable state numActiveSegments is the number
\* of segments from the front up to and including the last non-empty one.
C15_ActiveIsLastNonEmpty ==
  \A o \in DOMAIN games :
    games[o].numActiveSegments = LastNonEmpty(View(games[o], heap).pile)

\* A removal of the visible draw card that went to an earlier segment, the
\* current one being empty.
ThroughBackfill ==
  /\ last.op = "MakeMove"
  /\ DRW1 \in {last.source, last.destination}
  /\ Len(CardsFrom(After.pile, 0)) < Len(CardsFrom(Before.pile, 0))
  /\ Len(After.pile[After.currentSegment]) = 0
  /\ After.pile[After.currentSegment] = Before.pile[Before.currentSegment]

\* C15, corrected: numActiveSegments is never less than the number of
\* segments up to the last non-empty one, so every segment from
\* numActiveSegments on is empty; the two are equal after setup, after a
\* redraw and after a removal through backfill, and they drift apart when a
\* removal empties the current segment itself.
C15_ActiveCoversNonEmpty ==
  /\ \A o \in DOMAIN games :
       games[o].numActiveSegments >= LastNonEmpty(View(games[o], heap).pile)
  /\ (last.op = "MakeMove" /\ ~last.panic /\ ((IsAdvanceDraw /\ ReachedEnd) \/ ThroughBackfill))
     => After.numActiveSegments = LastNonEmpty(After.pile)
  /\ (last.op = "MakeMove" /\ ~last.panic /\ After.numActiveSegments > LastNonEmpty(After.pile))
     => \/ Before.numActiveSegments > LastNonEmpty(Before.pile)
        \/ /\ Len(Before.pile[Before.currentSegment]) = 1
           /\ Len(After.pile[After.currentSegment]) = 0

\* The last card of the last active segment was just removed from the
\* current segment: numActiveSegments still counts the segment.
C15_StaleAfterDirectRemoval ==
  /\ last.op = "MakeMove"
  /\ Before.numActiveSegments = LastNonEmpty(Before.pile)
  /\ After.numActiveSegments = Before.numActiveSegments
  /\ After.numActiveSegments > LastNonEmpty(After.pile)
  /\ Len(After.pile[After.numActiveSegments - 1]) = 0


MaxBudget == 10

MaxCPU == 6

InitSplit ==
  /\ games = <<>>
  /\ heap = <<>>
  /\ \E iterations \in 0..MaxBudget, numWorkers \in 1..MaxCPU :
       last = [op |-> "input", iterations |-> iterations, numWorkers |-> numWorkers,
               ret |-> <<>>]
  /\ NoSolver

\* Lines 114-124 of SolveMonteCarlo.
CallDistribute ==
  /\ last.op = "input"
  /\ last' = [last EXCEPT !.op = "distribute",
                          !.ret = JobsFor(last.iterations, last.numWorkers)]
  /\ UNCHANGED <<games, heap, mgr, wk, jobs, results, hist>>

NextSplit == CallDistribute

SpecSplit == InitSplit /\ [][NextSplit]_vars

RECURSIVE SumSimulations(_)
SumSimulations(js) ==
  IF js = <<>> THEN 0 ELSE Head(js).NumSimulations + SumSimulations(Tail(js))

\* The worker a job was made for: its seed is the base seed plus the index.
WorkerOf(job) == job.Seed

\* C18: for every budget N >= 0 and worker count W >= 1 the iteration counts
\* of the enqueued work items sum to exactly N: every worker but the last is
\* assigned floor(N/W) rollouts, the last floor(N/W) + (N mod W), and no work
\* item with zero rollouts is enqueued.
C18_SplitSumsToBudget ==
  last.op = "distribute"
  => /\ SumSimulations(last.ret) = last.iterations
     /\ \A k \in 1..Len(last.ret) :
          /\ last.ret[k].NumSimulations > 0
          /\ WorkerOf(last.ret[k]) \in 0..(last.numWorkers - 1)
          /\ last.ret[k].NumSimulations =
               (last.iterations \div last.numWorkers)
               + (IF WorkerOf(last.ret[k]) = last.numWorkers - 1
                  THEN last.iterations % last.numWorkers ELSE 0)
          /\ \A j \in 1..Len(last.ret) : j < k => WorkerOf(last.ret[j]) < WorkerOf(last.ret[k])
     /\ \A w \in 0..(last.numWorkers - 1) :
          ((last.iterations \div last.numWorkers)
           + (IF w = last.numWorkers - 1 THEN last.iterations % last.numWorkers ELSE 0) > 0)
          => \E k \in 1..Len(last.ret) : WorkerOf(last.ret[k]) = w

\* A budget that does not divide: three workers or more get a share each
\* and the last one the remainder on top.
C18_UnevenSplit ==
  /\ last.op = "distribute"
  /\ last.numWorkers >= 3
  /\ last.iterations \div last.numWorkers >= 1
  /\ last.iterations % last.numWorkers >= 2
  /\ Len(last.ret) = last.numWorkers


(***************************************************************************)
(* Replay: two executions of SolveMonteCarlo on the same template with the *)
(* same budget, each with a single worker (runtime.NumCPU() = 1) and a     *)
(* base seed of its own.  wk[e], jobs[e], results[e] and mgr.best[e] are   *)
(* the worker, the channels and the solver of execution e.  A worker's     *)
(* random source is a generator whose stream is a function of its seed.    *)
(***************************************************************************)
MaxSeed == 2

Executions == 0..1

\* r.Seed(seed), and the step of the generator from one draw to the next.
Seeded(seed) == (7 * seed + 2) % 16

RngNext(x) == (5 * x + 3) % 16

\* r.Float64() < 0.8 and r.Intn(n) on the draw x.
Float64Below08(x) == x % 5 /= 0

Intn(x, n) == x % n

\* A fault: all workers draw from the source of the first one.
RngOfFirstWorker(w) == wk[0].rng

\* The source r of worker w (line 41).
Rng(w) == wk[w].rng

\* Lines 114-124 for one worker and the base seed baseSeed.
SeededJobs(iterations, baseSeed) ==
  [k \in 1..Len(JobsFor(iterations, 1)) |->
     [JobsFor(iterations, 1)[k] EXCEPT !.Seed = baseSeed + @]]

InitReplay ==
  /\ \E k \in 1..Len(SolverSetups) : StartedWith(StartGame(SolverSetups[k], GameObj))
  /\ \E iterations \in 0..MaxIterations, baseSeed \in [Executions -> 0..MaxSeed] :
       /\ mgr = [pc |-> "replay", iterations |-> iterations, numWorkers |-> 1,
                 baseSeed |-> baseSeed, best |-> [e \in Executions |-> NoBest],
                 returned |-> [e \in Executions |-> FALSE]]
       /\ jobs = [e \in Executions |-> SeededJobs(iterations, baseSeed[e])]
  /\ wk = [e \in Executions |->
             [pc |-> "start", job |-> [NumSimulations |-> 0, Seed |-> 0], i |-> 0,
              localBest |-> NoBest, movesMade |-> <<>>, rng |-> Seeded(0)]]
  /\ results = [e \in Executions |-> <<>>]
  /\ hist = [template |-> games[GameObj], templateView |-> View(games[GameObj], heap),
             enqueued |-> 0, rollouts |-> {}, ran |-> {}, access |-> {},
             received |-> <<>>]

\* Lines 47-51: the worker takes its job and seeds its source.
TakeJobAndSeed ==
  \E w \in DOMAIN wk :
    /\ wk[w].pc = "range"
    /\ jobs[w] /= <<>>
    /\ jobs' = [jobs EXCEPT ![w] = Tail(@)]
    /\ wk' = [wk EXCEPT ![w] = [pc |-> "loop", job |-> Head(jobs[w]), i |-> 0,
                                localBest |-> NoBest, movesMade |-> <<>>,
                                rng |-> Seeded(Head(jobs[w]).Seed)]]
    /\ UNCHANGED <<games, heap, last, mgr, results, hist>>

\* Lines 82-86, r being what simulatedGame.MakeMove returned and x the state
\* of the source after the draws.
SeededRolled(w, t, chosenMove, x, r) ==
  /\ Holds(w, r.g, t.g, r.h)
  /\ wk' = [wk EXCEPT ![w].movesMade = Append(@, chosenMove),
                      ![w].rng = x,
                      ![w].pc = IF Len(wk[w].movesMade) + 1 > MaxMovesMade
                                THEN "finish" ELSE "rollout"]

SeededChosen(w, t, p) ==
  SeededRolled(w, t, p.move, p.rng,
               MakeMove(games[simulatedGame(w)], t.h, simulatedGame(w), p.move.Source,
                        p.move.Destination))

\* Lines 63-81: x1 and x2 are the next two draws of the source.  Float64 is
\* drawn only when some move cleared in the trial.
SeededPick(t, possibleMoves, x1, x2) ==
  IF Len(t.matchingMoves) = 0
  THEN [move |-> possibleMoves[Intn(x1, Len(possibleMoves)) + 1], rng |-> x1]
  ELSE IF Float64Below08(x1)
  THEN [move |-> t.matchingMoves[Intn(x2, Len(t.matchingMoves)) + 1], rng |-> x2]
  ELSE [move |-> possibleMoves[Intn(x2, Len(possibleMoves)) + 1], rng |-> x2]

SeededChoose(w, t, possibleMoves) ==
  SeededChosen(w, t, SeededPick(t, possibleMoves, RngNext(Rng(w)), RngNext(RngNext(Rng(w)))))

\* Lines 57-86, one pass of the loop.
SeededRolloutMove ==
  \E w \in DOMAIN wk :
    /\ wk[w].pc = "rollout"
    /\ ~IsSolved(games[simulatedGame(w)])
    /\ Len(getPossibleMovesForSimulation(games[simulatedGame(w)], heap)) > 0
    /\ SeededChoose(w, Trial(w, getPossibleMovesForSimulation(games[simulatedGame(w)], heap)),
                    getPossibleMovesForSimulation(games[simulatedGame(w)], heap))
    /\ hist' = [hist EXCEPT !.access = @ \cup Touched(w)]
    /\ UNCHANGED <<last, mgr, jobs, results>>

\* Line 96, on the results channel of the worker's execution.
SendOwnResult ==
  \E w \in DOMAIN wk :
    /\ wk[w].pc = "loop"
    /\ wk[w].i >= wk[w].job.NumSimulations
    /\ results' = [results EXCEPT ![w] = Append(@, wk[w].localBest)]
    /\ wk' = [wk EXCEPT ![w].pc = "range"]
    /\ UNCHANGED <<games, heap, last, mgr, jobs, hist>>

\* Lines 128-143 for one worker, its channel closed and drained: the manager
\* receives if line 131 says so, and returns.
CollectAndReturn ==
  \E w \in DOMAIN wk :
    /\ wk[w].pc = "range"
    /\ jobs[w] = <<>>
    /\ wk' = [wk EXCEPT ![w].pc = "exited"]
    /\ mgr' = [mgr EXCEPT !.returned[w] = TRUE,
                          !.best[w] = IF Receives(mgr.iterations, 1, 0)
                                      THEN Reduce(NoBest, Head(results[w])) ELSE NoBest]
    /\ results' = [results EXCEPT ![w] = <<>>]
    /\ UNCHANGED <<games, heap, last, jobs, hist>>

NextReplay ==
  \/ StartWorker
  \/ TakeJobAndSeed
  \/ BeginSimulation
  \/ SeededRolloutMove
  \/ FinishSimulation
  \/ SendOwnResult
  \/ CollectAndReturn

SpecReplay == InitReplay /\ [][NextReplay]_vars

BothReturned == \A e \in Executions : mgr.returned[e]

\* C17: two executions of the search with the same template, the same seed,
\* a single worker and the same iteration budget return the same best score
\* and the same best move sequence.
C17_SameSeedSameResult ==
  (BothReturned /\ mgr.baseSeed[0] = mgr.baseSeed[1])
  => /\ mgr.best[0].Score = mgr.best[1].Score
     /\ mgr.best[0].Moves = mgr.best[1].Moves

\* Two executions with the same seed have returned a score reached by a
\* rollout of two moves, the draws having chosen a move other than the
\* first candidate.
C17_ReplayedRollout ==
  /\ BothReturned
  /\ mgr.baseSeed[0] = mgr.baseSeed[1]
  /\ mgr.iterations >= 1
  /\ mgr.best[0].Score > 0
  /\ Len(mgr.best[0].Moves) > 1
  /\ \E k \in 1..Len(mgr.best[0].Moves) : mgr.best[0].Moves[k] /= Move(DRAW, DRAW)

\* The seed matters: two executions with different seeds have returned
\* different move sequences.
OtherSeedOtherResult ==
  /\ BothReturned
  /\ mgr.baseSeed[0] /= mgr.baseSeed[1]
  /\ mgr.best[0].Moves /= mgr.best[1].Moves


(***************************************************************************)
(* The effects of single moves: a game is played into a small position     *)
(* and a caller makes moves of every kind between the cells A1, B1, C1 and *)
(* G1, the hold and the draw pile, or reads the visible draw stone.        *)
(***************************************************************************)
MaxFrameSteps == 5

\* After the lead: the cells A1 = 1, B1 = 2, C1 = 5, D1 = 7, E1 = 9, F1 = 11,
\* G1 = 13 with the pile [13, 2, 6] [6]; the example puzzle with the cursor
\* on the last of its 8 segments.
FrameSetups ==
  <<[pyramid |-> DiagonalPyramid, pile |-> <<13, 2, 6, 6>> \o Thirteens(20),
     lead |-> "smash"],
    Setups[2]>>

FrameMoves ==
  {Move(DRAW, DRAW), Move(DRW1, HOLD), Move(HOLD, DRW1), Move(DRW1, SMASH),
   Move(<<"A", "1">>, <<"B", "1">>), Move(<<"A", "1">>, HOLD), Move(<<"C", "1">>, HOLD),
   Move(<<"C", "1">>, DRW1), Move(<<"A", "1">>, DRW1), Move(DRW1, <<"C", "1">>),
   Move(HOLD, <<"B", "1">>), Move(<<"G", "1">>, SMASH), Move(<<"A", "1">>, SMASH)}

InitFrame ==
  /\ \E k \in 1..Len(FrameSetups) : StartedWith(StartGame(FrameSetups[k], GameObj))
  /\ NoSolver

CallMakeMoveOnFrame ==
  /\ Playing
  /\ last.steps < MaxFrameSteps
  /\ \E m \in FrameMoves : MakeMoveOn(GameObj, m)
  /\ UNCHANGED <<mgr, wk, jobs, results, hist>>

\* g.GetCurrentDrawStone()
CallGetCurrentDrawStone ==
  /\ Playing
  /\ last' = [op |-> "GetCurrentDrawStone", obj |-> GameObj,
              ret |-> GetCurrentDrawStone(games[GameObj], heap),
              pre |-> Views(games, heap)]
  /\ UNCHANGED <<games, heap, mgr, wk, jobs, results, hist>>

NextFrame == CallMakeMoveOnFrame \/ CallGetCurrentDrawStone

SpecFrame == InitFrame /\ [][NextFrame]_vars

\* A move to HOLD that is no pair match, made with the hold occupied.
RefusedByOccupiedHold ==
  /\ last.op = "MakeMove"
  /\ last.destination = HOLD
  /\ Before.hold /= -1
  /\ ~IsMatchingPair(StoneIn(Before, last.source), Before.hold)

\* C21: a move with destination HOLD that is not a pair match, made while
\* the hold is occupied, resets streak to 0, returns false and leaves the
\* board, the hold, the draw pile, the cursor, matches, streakBonus and
\* redraws unchanged.
C21_OccupiedHoldResetsStreak ==
  RefusedByOccupiedHold
  => /\ ~last.ret
     /\ After.streak = 0
     /\ After.pyramid = Before.pyramid
     /\ After.hold = Before.hold
     /\ After.pile = Before.pile
     /\ After.currentSegment = Before.currentSegment
     /\ After.matches = Before.matches
     /\ After.streakBonus = Before.streakBonus
     /\ After.redraws = Before.redraws

\* What the code does on such a move: it returns false and leaves the
\* streak, like everything else but the move log, as it was.
C21_OccupiedHoldChangesNothing ==
  RefusedByOccupiedHold
  => /\ ~last.ret
     /\ ~last.panic
     /\ After = [Before EXCEPT !.moves = @ + 1]

\* A move refused by the occupied hold while a streak stood.
C21_RefusedWithStreak ==
  /\ RefusedByOccupiedHold
  /\ Before.streak > 0
  /\ After.streak = Before.streak


\* The segment the visible draw stone of view v lies in, -1 when no stone is
\* visible: the current segment, or the nearest non-empty one before it.
VisibleSegment(v) ==
  IF Len(v.pile[v.currentSegment]) > 0 THEN v.currentSegment
  ELSE IF \A i \in SegIdx : i < v.currentSegment => Len(v.pile[i]) = 0 THEN -1
  ELSE CHOOSE i \in SegIdx :
         /\ i < v.currentSegment
         /\ Len(v.pile[i]) > 0
         /\ \A j \in SegIdx : (i < j /\ j < v.currentSegment) => Len(v.pile[j]) = 0

\* The pile of view v less its visible draw stone.
WithoutVisible(v) ==
  IF VisibleSegment(v) = -1 THEN v.pile
  ELSE [v.pile EXCEPT ![VisibleSegment(v)] = SubSeq(@, 1, Len(@) - 1)]

\* The board of view v less the stone of the cell label.
WithoutCell(v, label) ==
  [v.pyramid EXCEPT ![StringToIndices(label).row][StringToIndices(label).col] = -1]

\* A move to HOLD from a cell or the draw pile that denotes a stone, made
\* with the hold empty (no stone matches the empty hold).
PlacedIntoHold ==
  /\ last.op = "MakeMove"
  /\ last.destination = HOLD
  /\ last.source /= HOLD
  /\ Before.hold = -1
  /\ StoneIn(Before, last.source) /= -1

\* C22: a place-into-hold move (destination HOLD, no pair match) made with
\* the hold empty copies the source stone's value into the hold, removes
\* exactly that stone from its origin (the board cell, or the visible draw
\* stone by the pop rule), returns false and leaves matches, streak,
\* streakBonus and redraws unchanged.
C22_PlaceIntoHold ==
  PlacedIntoHold
  => /\ ~last.panic
     /\ ~last.ret
     /\ After.hold = StoneIn(Before, last.source)
     /\ After.matches = Before.matches
     /\ After.streak = Before.streak
     /\ After.streakBonus = Before.streakBonus
     /\ After.redraws = Before.redraws
     /\ IF last.source = DRW1
        THEN /\ After.pile = WithoutVisible(Before)
             /\ After.pyramid = Before.pyramid
        ELSE /\ After.pile = Before.pile
             /\ After.pyramid = WithoutCell(Before, last.source)

\* The stone of a cell was placed into the empty hold while a streak stood.
C22_CellPlacedDuringStreak ==
  /\ PlacedIntoHold
  /\ IsCell(last.source)
  /\ Before.streak > 0
  /\ After.hold = StoneIn(Before, last.source)
  /\ StoneIn(After, last.source) = -1

\* The visible draw stone was placed into the hold out of an earlier
\* segment, the current one being empty.
PlacedThroughBackfill ==
  /\ PlacedIntoHold
  /\ last.source = DRW1
  /\ VisibleSegment(Before) /= Before.currentSegment


\* The visible draw stone of view v as the lookup describes it, -1 for none.
VisibleStone(v) ==
  IF VisibleSegment(v) = -1 THEN -1
  ELSE v.pile[VisibleSegment(v)][Len(v.pile[VisibleSegment(v)])]

\* The last move took a stone off the draw pile.
RemovedFromPile ==
  /\ last.op = "MakeMove"
  /\ ~IsAdvanceDraw
  /\ After.pile /= Before.pile

\* C23: whenever a move removes the visible draw stone (pair match, solo
\* discard or draw-to-hold), the stone removed is exactly the one
\* GetCurrentDrawStone returned immediately before the move (top of the
\* current segment, else top of the nearest preceding non-empty segment), no
\* other draw-pile stone is removed or reordered, and when the removal takes
\* the backfill path numActiveSegments is recomputed by trimming trailing
\* empty segments immediately after the pop; GetCurrentDrawStone itself never
\* changes any state.
C23_RemovesTheVisibleStone ==
  /\ RemovedFromPile
     => /\ DRW1 \in {last.source, last.destination}
        /\ Before.drawStone = VisibleStone(Before)
        /\ After.pile = WithoutVisible(Before)
        /\ VisibleSegment(Before) /= Before.currentSegment
           => After.numActiveSegments = LastNonEmpty(After.pile)
  /\ last.op = "GetCurrentDrawStone"
     => /\ last.ret = VisibleStone(Before)
        /\ After = Before

\* A pair match took the visible stone out of an earlier segment and emptied
\* it, and numActiveSegments went down with it.
C23_BackfillPopTrimmed ==
  /\ RemovedFromPile
  /\ last.ret
  /\ VisibleSegment(Before) /= Before.currentSegment
  /\ Len(After.pile[VisibleSegment(Before)]) = 0
  /\ After.numActiveSegments < Before.numActiveSegments

\* The visible draw stone was read with the current segment empty.
ReadThroughBackfill ==
  /\ last.op = "GetCurrentDrawStone"
  /\ VisibleSegment(Before) /= Before.currentSegment
  /\ last.ret /= -1


\* A solo discard of a cell or of the visible draw stone.
IsSoloDiscard ==
  /\ last.op = "MakeMove"
  /\ last.destination = SMASH
  /\ (last.source = DRW1 \/ IsCell(last.source))

\* C24: a solo-discard move (destination SMASH) on a stone of value 13
\* removes exactly that one stone (its board cell becomes empty, or the
\* visible draw stone is popped), increases matches by 1 and streak by 1 and
\* returns true; on a stone whose value is not 13 it returns false and
\* changes no stone, counter or streak.
C24_SoloDiscard ==
  IsSoloDiscard
  => /\ ~last.panic
     /\ IF StoneIn(Before, last.source) = 13
        THEN /\ last.ret
             /\ After.matches = Before.matches + 1
             /\ After.streak = Before.streak + 1
             /\ After.hold = Before.hold
             /\ After.redraws = Before.redraws
             /\ After.currentSegment = Before.currentSegment
             /\ IF last.source = DRW1
                THEN /\ After.pile = WithoutVisible(Before)
                     /\ After.pyramid = Before.pyramid
                ELSE /\ After.pile = Before.pile
                     /\ After.pyramid = WithoutCell(Before, last.source)
        ELSE /\ ~last.ret
             /\ After.pyramid = Before.pyramid
             /\ After.hold = Before.hold
             /\ After.pile = Before.pile
             /\ After.currentSegment = Before.currentSegment
             /\ After.numActiveSegments = Before.numActiveSegments
             /\ After.matches = Before.matches
             /\ After.streak = Before.streak
             /\ After.streakBonus = Before.streakBonus
             /\ After.redraws = Before.redraws

\* The visible draw stone 13 was discarded alone.
C24_DrawThirteenDiscarded ==
  /\ IsSoloDiscard
  /\ last.source = DRW1
  /\ Before.drawStone = 13
  /\ last.ret
  /\ Len(CardsFrom(After.pile, 0)) = Len(CardsFrom(Before.pile, 0)) - 1

\* A solo discard of a cell whose stone is not 13 was refused while a streak
\* stood.
DiscardRefused ==
  /\ IsSoloDiscard
  /\ IsCell(last.source)
  /\ StoneIn(Before, last.source) \in 1..12
  /\ ~last.ret
  /\ Before.streak > 0

\* The stone 13 of a cell was discarded alone.
CellThirteenDiscarded ==
  /\ IsSoloDiscard
  /\ IsCell(last.source)
  /\ last.ret


\* The board of view v less the stones of the cells among labels.
WithoutCells(v, labels) ==
  [r \in 0..(MaxPyramidRows - 1) |->
     [c \in 0..(MaxPyramidCols - 1) |->
        IF \E l \in labels :
             IsCell(l) /\ StringToIndices(l).row = r /\ StringToIndices(l).col = c
        THEN -1
        ELSE v.pyramid[r][c]]]

\* A move between two endpoints whose stones match.
IsPairMatch ==
  /\ last.op = "MakeMove"
  /\ IsEndpoint(last.source)
  /\ IsEndpoint(last.destination)
  /\ IsMatchingPair(StoneIn(Before, last.source), StoneIn(Before, last.destination))

\* C25: a pair-match move between two matching endpoints removes exactly
\* those two stones and nothing else (a board-cell endpoint becomes empty, a
\* HOLD endpoint empties the hold, a DRW1 endpoint pops the visible draw
\* stone), increases matches by exactly 1 and streak by exactly 1, leaves
\* redraws and the cursor unchanged, and returns true.
C25_PairMatch ==
  IsPairMatch
  => /\ ~last.panic
     /\ last.ret
     /\ After.matches = Before.matches + 1
     /\ After.streak = Before.streak + 1
     /\ After.redraws = Before.redraws
     /\ After.currentSegment = Before.currentSegment
     /\ After.pyramid = WithoutCells(Before, {last.source, last.destination})
     /\ After.hold = IF HOLD \in {last.source, last.destination} THEN -1 ELSE Before.hold
     /\ After.pile = IF DRW1 \in {last.source, last.destination}
                     THEN WithoutVisible(Before)
                     ELSE Before.pile

\* The stone in the hold was matched with the visible draw stone.
C25_HoldMatchedWithDraw ==
  /\ IsPairMatch
  /\ last.source = HOLD
  /\ last.destination = DRW1
  /\ last.ret
  /\ After.hold = -1
  /\ Len(CardsFrom(After.pile, 0)) = Len(CardsFrom(Before.pile, 0)) - 1

\* Two cells were matched; a cell was matched with the visible draw stone
\* out of an earlier segment; the hold was matched with a cell.
CellsMatched ==
  IsPairMatch /\ IsCell(last.source) /\ IsCell(last.destination)

CellMatchedThroughBackfill ==
  /\ IsPairMatch
  /\ IsCell(last.source)
  /\ last.destination = DRW1
  /\ VisibleSegment(Before) /= Before.currentSegment

HoldMatchedWithCell ==
  IsPairMatch /\ last.source = HOLD /\ IsCell(last.destination)


\* C28: in every state reachable by any sequence of moves from a valid
\* setup, the cursor satisfies 0 <= currentSegment <= 7 (so every segment
\* lookup is in bounds, even when backfill trimming makes numActiveSegments
\* smaller than the cursor), 0 <= numActiveSegments <= 8, every segment holds
\* at most 3 stones and the pile holds at most 24 stones.
C28_CursorAndPileInBounds ==
  \A o \in DOMAIN games :
    /\ games[o].currentSegment \in 0..(MaxDrawPileSegments - 1)
    /\ games[o].numActiveSegments \in 0..MaxDrawPileSegments
    /\ \A i \in SegIdx : games[o].drawPile[i].len \in 0..StonesPerSegment
    /\ SumLens(games[o], 0) <= MaxDrawPileSegments * StonesPerSegment

\* Removals through backfill have emptied every segment before the cursor:
\* numActiveSegments is 0 with the cursor on segment 1.
C28_CursorPastActiveSegments ==
  /\ last.op = "MakeMove"
  /\ ThroughBackfill
  /\ games[GameObj].numActiveSegments < games[GameObj].currentSegment

\* The cursor stands on the last of 8 segments, and an advance draw takes it
\* from there back to the first.
CursorOnLastSegment ==
  games[GameObj].currentSegment = MaxDrawPileSegments - 1

WrappedFromLastSegment ==
  /\ IsAdvanceDraw
  /\ Before.currentSegment = MaxDrawPileSegments - 1
  /\ After.currentSegment = 0


(***************************************************************************)
(* A rollout by hand: from a full board with the hold empty, every move    *)
(* made is one the move generator emits for the state it is made in.       *)
(***************************************************************************)
MaxRolloutSteps == 5

\* A1 = 4, A2 = 9, A3 = 3 and 13 elsewhere, with the pile [1, 2, 9] and 13s;
\* the example puzzle.
RolloutSetups == <<BoardSetups[1], Setups[1]>>

InitRollout ==
  /\ \E k \in 1..Len(RolloutSetups) : StartedWith(StartGame(RolloutSetups[k], GameObj))
  /\ NoSolver

\* chosenMove is one of possibleMoves (lines 58-82 of the solver).
MakeEmittedMove(possibleMoves) ==
  \E k \in 1..Len(possibleMoves) : MakeMoveOn(GameObj, possibleMoves[k])

CallMakeEmittedMove ==
  /\ Playing
  /\ last.steps < MaxRolloutSteps
  /\ MakeEmittedMove(getPossibleMovesForSimulation(games[GameObj], heap))
  /\ UNCHANGED <<mgr, wk, jobs, results, hist>>

NextRollout == CallMakeEmittedMove \/ CallGetPossibleMoves

SpecRollout == InitRollout /\ [][NextRollout]_vars

\* C26: every move the generator emits for a state is legal in that state:
\* every emitted solo-discard and pair move returns true when applied to
\* that state, every emitted move to HOLD with the hold empty places the
\* stone into the hold, every cell named in an emitted move is accessible,
\* and the advance-draw move is always emitted (so the candidate list is
\* never empty).
C26_EmittedMovesAreLegal ==
  /\ last.op = "MakeMove"
     => /\ ~last.panic
        /\ ~BlockedCell(Before, last.source)
        /\ ~BlockedCell(Before, last.destination)
        /\ last.destination = SMASH => (StoneIn(Before, last.source) = 13 /\ last.ret)
        /\ (last.destination \in {HOLD, DRW1} \/ IsCell(last.destination))
           => IF last.destination = HOLD /\ Before.hold = -1
              THEN /\ ~last.ret
                   /\ StoneIn(Before, last.source) /= -1
                   /\ After.hold = StoneIn(Before, last.source)
                   /\ StoneIn(After, last.source) /= StoneIn(Before, last.source)
                      \/ last.source = DRW1
              ELSE last.ret
  /\ last.op = "getPossibleMovesForSimulation"
     => /\ Len(last.ret) > 0
        /\ Offered(DRAW, DRAW)

\* An emitted pair move between two cells was applied and cleared both.
C26_EmittedPairCleared ==
  /\ last.op = "MakeMove"
  /\ IsCell(last.source)
  /\ IsCell(last.destination)
  /\ last.ret
  /\ After.matches = Before.matches + 1


\* Emitted moves of the other kinds were applied: the hold matched with the
\* visible draw stone, a cell matched with the stone in the hold, the visible
\* 13 discarded alone, and the visible draw stone placed into the hold.
EmittedHoldDrawMatch ==
  last.op = "MakeMove" /\ last.source = HOLD /\ last.destination = DRW1 /\ last.ret

EmittedCellHoldMatch ==
  last.op = "MakeMove" /\ last.destination = HOLD /\ Before.hold /= -1 /\ last.ret

EmittedDrawDiscard ==
  last.op = "MakeMove" /\ last.source = DRW1 /\ last.destination = SMASH /\ last.ret

EmittedDrawToHold ==
  last.op = "MakeMove" /\ last.source = DRW1 /\ last.destination = HOLD /\ After.hold /= -1


\* C27: in every state reachable from a full 28-stone board by applying
\* only generator-emitted moves, the pyramid stays structurally consistent:
\* no cell was uncovered illegally, that is, for every empty cell in a row
\* r > 0 both of its support cells (r-1, c) and (r-1, c+1) are empty.
C27_EmptyCellsHaveEmptySupports ==
  \A r \in 1..(MaxPyramidRows - 1) : \A c \in 0..(MaxPyramidCols - 1 - r) :
    ~Occupied(r, c) => (~Occupied(r - 1, c) /\ ~Occupied(r - 1, c + 1))

\* Emitted moves have emptied the cell B4 after A4 and A5 under it, and
\* B3 beside it still lies on A3.
C27_SecondRowCellCleared ==
  /\ last.op = "MakeMove"
  /\ ~Occupied(1, 3)
  /\ ~Occupied(0, 3) /\ ~Occupied(0, 4)
  /\ Occupied(0, 2)
  /\ Occupied(1, 2)

\* The board is full at the start of every rollout.
FullBoard ==
  \A r \in 0..(MaxPyramidRows - 1) : \A c \in 0..(MaxPyramidCols - 1 - r) : Occupied(r, c)

StartsFromFullBoard == last.op = "init" => FullBoard


\* C29: in every state reachable from a setup with an empty hold by applying
\* only generator-emitted moves, the hold is either empty or holds a value
\* in 1..12: the stone 13 is never placed into the hold.
\* The setups are of stones 1..13, the card values of the puzzle.
C29_HoldNeverThirteen ==
  /\ last.op = "init" => games[GameObj].hold = -1
  /\ games[GameObj].hold \in {-1} \cup 1..12
  /\ (last.op = "MakeMove" /\ last.destination = HOLD /\ ~last.ret)
     => StoneIn(Before, last.source) /= 13

\* A stone is in the hold, placed there by an emitted move, while the
\* visible draw stone is 13.
C29_HoldFilledBesideThirteen ==
  /\ last.op = "MakeMove"
  /\ games[GameObj].hold \in 1..12
  /\ After.drawStone = 13


(***************************************************************************)
(* The worker pool, job by job: the manager sends the jobs one at a time   *)
(* while the workers it has spawned are already receiving, then closes the *)
(* channel and collects.  The scheduler runs every goroutine that can take *)
(* a step, which the fairness conditions state.                            *)
(***************************************************************************)
\* Lines 117-120: the simulations of worker w's job.
NumSims(iterations, numWorkers, w) ==
  (iterations \div numWorkers) + (IF w = numWorkers - 1 THEN iterations % numWorkers ELSE 0)

InitPool == InitSolver

\* Lines 116-124, one pass: the send at line 122 needs room in the channel.
SendJob ==
  /\ mgr.pc = "distribute"
  /\ mgr.w < mgr.numWorkers
  /\ IF NumSims(mgr.iterations, mgr.numWorkers, mgr.w) > 0
     THEN /\ Len(jobs.buf) < mgr.numWorkers
          /\ jobs' = [jobs EXCEPT !.buf =
                        Append(@, [NumSimulations |->
                                     NumSims(mgr.iterations, mgr.numWorkers, mgr.w),
                                   Seed |-> mgr.w])]
          /\ hist' = [hist EXCEPT !.enqueued = @ + 1]
     ELSE UNCHANGED <<jobs, hist>>
  /\ mgr' = [mgr EXCEPT !.w = @ + 1]
  /\ UNCHANGED <<games, heap, last, wk, results>>

\* Line 125.
CloseJobs ==
  /\ mgr.pc = "distribute"
  /\ mgr.w >= mgr.numWorkers
  /\ jobs' = [jobs EXCEPT !.closed = TRUE]
  /\ mgr' = [mgr EXCEPT !.pc = "collect", !.w = 0]
  /\ UNCHANGED <<games, heap, last, wk, results, hist>>

NextPool ==
  \/ SpawnWorkers
  \/ SendJob
  \/ CloseJobs
  \/ ReceiveResult
  \/ SkipReceive
  \/ ReturnBest
  \/ StartWorker
  \/ TakeJob
  \/ ExitWorker
  \/ BeginSimulation
  \/ RolloutMove
  \/ FinishSimulation
  \/ SendResult

\* The steps of the manager and the channel operations of the workers.
ChannelStep ==
  \/ SpawnWorkers
  \/ SendJob
  \/ CloseJobs
  \/ ReceiveResult
  \/ SkipReceive
  \/ ReturnBest
  \/ TakeJob
  \/ ExitWorker
  \/ SendResult

\* The steps a worker takes on its own games.
SimulationStep == StartWorker \/ BeginSimulation \/ RolloutMove \/ FinishSimulation

\* Some worker can take a step on its own games: it has yet to make its
\* copies, or has simulations of its job left, or stands in a rollout (the
\* candidate list always holds advance draw, so the loop goes on or ends).
Simulating ==
  \E w \in DOMAIN wk :
    \/ wk[w].pc \in {"start", "rollout", "finish"}
    \/ wk[w].pc = "loop" /\ wk[w].i < wk[w].job.NumSimulations

\* Weak fairness of SimulationStep, with its enabling condition written out.
SimulationFair == []<>(~Simulating) \/ []<><<SimulationStep>>_vars

SpecPool ==
  InitPool /\ [][NextPool]_vars /\ WF_vars(ChannelStep) /\ SimulationFair

\* Worker w holds a job it has received and not yet answered.
Busy(w) == wk[w].pc \in {"loop", "rollout", "finish"}

\* Worker w stands at the send of line 96.
AtSend(w) == wk[w].pc = "loop" /\ wk[w].i >= wk[w].job.NumSimulations

\* The seeds of the jobs in the channel.
Queued == {jobs.buf[k].Seed : k \in 1..Len(jobs.buf)}

\* Every job sent so far is at exactly one place: in the channel, with
\* exactly one worker, or answered by exactly one result (sent, or received
\* by the manager); no worker at the send finds the result channel full.
EachJobOnce ==
  /\ Cardinality(Queued) = Len(jobs.buf)
  /\ \A w \in DOMAIN wk : Busy(w) => wk[w].job.Seed \notin Queued
  /\ \A w1 \in DOMAIN wk : \A w2 \in DOMAIN wk :
       (Busy(w1) /\ Busy(w2) /\ w1 /= w2) => wk[w1].job.Seed /= wk[w2].job.Seed
  /\ Len(jobs.buf) + Cardinality({w \in DOMAIN wk : Busy(w)}) + Len(results)
       + Len(hist.received) = hist.enqueued
  /\ Len(results) <= mgr.numWorkers
  /\ \A w \in DOMAIN wk : AtSend(w) => Len(results) < mgr.numWorkers

AllWorkersExited ==
  /\ mgr.pc /= "spawn"
  /\ \A w \in DOMAIN wk : wk[w].pc = "exited"

\* C30: under every interleaving, each enqueued work item is taken by
\* exactly one worker and produces exactly one result; no worker ever blocks
\* on sending a result (the result channel capacity is never exceeded), and
\* every worker exits once the work queue is closed and drained.
C30_EachJobOnceAndWorkersExit ==
  /\ []EachJobOnce
  /\ <>[]AllWorkersExited

\* Two workers have each taken a job and answered it, and all have exited.
C30_TwoJobsAnsweredAllExited ==
  /\ AllWorkersExited
  /\ hist.enqueued >= 2
  /\ Cardinality(hist.ran) >= 2
  /\ Len(results) + Len(hist.received) = hist.enqueued

\* A worker is at work on a job received before the channel was closed.
WorkedBeforeClose ==
  /\ mgr.pc = "distribute"
  /\ \E w \in DOMAIN wk : Busy(w)

====
